---------------------------- MODULE Spec2Model ----------------------------
(***************************************************************************)
(* Model of the K-WON compliance backplane (seoyun0311/koscom_ai_agent):   *)
(*   - tx_audit: incremental collector, audit store, Merkle batcher        *)
(*   - report-master: monthly LangGraph workflow with human review         *)
(*                                                                         *)
(* Byte strings are TLA+ strings; b1 \o b2 is byte concatenation.  A hex   *)
(* string is a sequence of tokens; a token is one character ("a", "F",     *)
(* "x", ...) or a digest token, which stands for the 64 lowercase hex      *)
(* digits of one SHA-256 digest.  SHA-256 is a free constructor            *)
(* "H(" \o b \o ")": distinct inputs give distinct digests.               *)
(***************************************************************************)
EXTENDS Integers, Sequences, FiniteSets, TLC

\* ------------------------------------------------------------------ bounds
MaxPageLen == 2      \* rows in one fetched page
MaxFetches == 2      \* non-empty pages fetched in one behaviour
MaxClock == 3        \* readings of the wall clock in one behaviour
MaxRuns == 2         \* POST /mcp/run requests in one behaviour
MaxResumes == 4      \* review decisions in one behaviour
MaxAnchorClock == 4  \* readings of the wall clock when the anchor tool is called
MaxLeaves == 4       \* leaves of one Merkle tree
MaxInbox == 3        \* tool calls waiting in the server's event loop
MaxCursor == 11      \* block numbers passed to set_last_block
MaxPage == 4         \* page numbers from here on are not told apart
MaxChain == 3        \* transfers on the upstream chain
MaxStored == 3       \* events stored when the Merkle poller starts
MaxCycleClock == 5   \* readings of the wall clock by the Merkle poller
MaxAmount == 2       \* largest exposure and target amount of an institution

\* ------------------------------------------------- core/utils/hash_utils.py
HexLower == {"0", "1", "2", "3", "a", "b", "c", "d", "e", "f"}
HexUpper == {"A", "B", "C", "D", "E", "F"}
OtherChars == {"x", "X", "z", " "}
AllChars == HexLower \cup HexUpper \cup OtherChars

Lower(t) ==
    CASE t = "A" -> "a" [] t = "B" -> "b" [] t = "C" -> "c"
      [] t = "D" -> "d" [] t = "E" -> "e" [] t = "F" -> "f"
      [] t = "X" -> "x" [] OTHER -> t

\* number of characters a token stands for
Width(t) == IF t \in AllChars THEN 1 ELSE 64

RECURSIVE StrLen(_)
StrLen(s) == IF s = <<>> THEN 0 ELSE Width(Head(s)) + StrLen(Tail(s))

RECURSIVE LStrip(_)
LStrip(s) == IF s # <<>> /\ Head(s) = " " THEN LStrip(Tail(s)) ELSE s

RECURSIVE RStrip(_)
RStrip(s) ==
    IF s # <<>> /\ s[Len(s)] = " " THEN RStrip(SubSeq(s, 1, Len(s) - 1)) ELSE s

Strip(s) == LStrip(RStrip(s))

HasPrefix0x(s) == Len(s) >= 2 /\ s[1] = "0" /\ s[2] \in {"x", "X"}

\* a digest token is already lowercase hex
IsHexToken(t) == t \notin AllChars \/ t \in HexLower

\* normalize_hex: "" if empty or invalid; strip, drop 0x, lowercase, pad to even
normalize_hex(value) ==
    IF value = <<>> THEN <<>>
    ELSE LET s0 == Strip(value)
             s1 == IF HasPrefix0x(s0) THEN SubSeq(s0, 3, Len(s0)) ELSE s0
             s2 == [i \in 1..Len(s1) |-> Lower(s1[i])]
         IN  IF \E i \in 1..Len(s2) : ~IsHexToken(s2[i]) THEN <<>>
             ELSE IF StrLen(s2) % 2 = 1 THEN <<"0">> \o s2
             ELSE s2

\* bytes.fromhex(h): the bytes a hex string denotes
RECURSIVE fromhex(_)
fromhex(h) == IF h = <<>> THEN "" ELSE Head(h) \o fromhex(Tail(h))

\* bytes.hex(): the hex string of a byte string (kept as one token)
hex(b) == <<b>>

\* hashlib.sha256(data).digest()
sha256(data) == "H(" \o data \o ")"

\* sha256_hex(data)
sha256_hex(data) == hex(sha256(data))

BlockStr(n) == CASE n = 0 -> "0" [] n = 1 -> "1" [] n = 2 -> "2" [] n = 3 -> "3"
                 [] n = 4 -> "4" [] OTHER -> "9"

\* canonical_json of the picked fields of a transfer row
canonical_json(tx) == "{" \o BlockStr(tx.blockNumber) \o "," \o fromhex(tx.hash) \o "}"

\* details_hash_from_tx(tx)
details_hash_from_tx(tx) == sha256_hex(canonical_json(tx))

Min(a, b) == IF a < b THEN a ELSE b
Max(a, b) == IF a > b THEN a ELSE b

\* One pass of the `for i in range(0, len(curr), 2)` loop over a layer, pairs
\* k = 0 .. : returns [next |-> parents, proofs |-> proofs] after pairs k.. .
\* The proof lists are indexed by the position i in the CURRENT layer, as in
\* the source (proofs[li], proofs[ri]).
RECURSIVE LayerPass(_, _, _, _)
LayerPass(curr, k, next, proofs) ==
    LET i == 2 * k IN          \* 0-based index into curr
    IF i >= Len(curr) THEN [next |-> next, proofs |-> proofs]
    ELSE LET left == curr[i + 1]
             right == IF i + 1 < Len(curr) THEN curr[i + 2] ELSE curr[i + 1]
             parent == sha256(left \o right)
             li == i
             ri == Min(i + 1, Len(curr) - 1)
             p1 == [proofs EXCEPT ![li + 1] =
                        Append(@, [pos |-> "R", hash |-> hex(right)])]
             p2 == IF ri # li
                   THEN [p1 EXCEPT ![ri + 1] =
                            Append(@, [pos |-> "L", hash |-> hex(left)])]
                   ELSE p1
         IN  LayerPass(curr, k + 1, Append(next, parent), p2)

\* the `while len(layers[-1]) > 1` loop
RECURSIVE BuildLayers(_, _)
BuildLayers(curr, proofs) ==
    IF Len(curr) <= 1 THEN [top |-> curr, proofs |-> proofs]
    ELSE LET r == LayerPass(curr, 0, <<>>, proofs)
         IN  BuildLayers(r.next, r.proofs)

\* merkle_tree_with_proofs(leaves_hex) -> [root, proofs]
merkle_tree_with_proofs(leaves_hex) ==
    IF leaves_hex = <<>> THEN [root |-> <<>>, proofs |-> <<>>]
    ELSE LET layer0 == [i \in 1..Len(leaves_hex) |-> fromhex(leaves_hex[i])]
             r == BuildLayers(layer0, [i \in 1..Len(leaves_hex) |-> <<>>])
         IN  [root |-> hex(r.top[1]), proofs |-> r.proofs]

\* Verification fold of spec section 4.1: node = SHA256(sibling || node) for a
\* sibling on the left, SHA256(node || sibling) otherwise; result as hex.
RECURSIVE FoldBytes(_, _)
FoldBytes(node, path) ==
    IF path = <<>> THEN node
    ELSE LET s == fromhex(Head(path).hash)
         IN  FoldBytes(IF Head(path).pos = "L" THEN sha256(s \o node)
                       ELSE sha256(node \o s), Tail(path))

Fold(leaf_hex, path) == hex(FoldBytes(fromhex(leaf_hex), path))

\* ================================================================ tx_audit
\* ------------------------------------------------------------ the upstream
H1 == <<"0", "x", "A", "1">>
H2 == <<"0", "x", "b">>
HBAD == <<"0", "x", "e", "e">>
HLEGACY == <<"0", "X", "c", "3">>
HINVALID == <<"0", "x", "z", "z">>

\* rows the transfer source can return; a malformed row lacks a field that
\* store_events reads with tx[...] (timeStamp, value, tokenDecimal)
UpstreamRows ==
    { [hash |-> H1, blockNumber |-> 1, malformed |-> FALSE],
      [hash |-> H2, blockNumber |-> 2, malformed |-> FALSE],
      [hash |-> HBAD, blockNumber |-> 2, malformed |-> TRUE] }

UpstreamHashes == {r.hash : r \in UpstreamRows}

Pages == UNION {[1..n -> UpstreamRows] : n \in 1..MaxPageLen}

\* rows written before details_hash existed: details_hash absent, raw_json kept
LegacyRow(h, b) ==
    [event_id |-> h, block_number |-> b, tx_hash |-> h, details_hash |-> <<>>,
     raw_json |-> [hash |-> h, blockNumber |-> b, malformed |-> FALSE]]

InitialStores ==
    { <<>>,
      <<LegacyRow(HLEGACY, 1)>>,
      <<LegacyRow(HLEGACY, 1), LegacyRow(HINVALID, 1)>> }

None == -1           \* Python None for an int | None value
SAFE_LAG == 12

\* chain heads _get_chain_head can report (None: the call failed)
Heads == {None, SAFE_LAG + 1, SAFE_LAG + 3}

VARIABLES
    audit_events,    \* table audit_events, in id order
    last_block,      \* SyncState.last_block of SOURCE_NAME, None: no row
    use_local,       \* settings.USE_LOCAL_SFIAT
    col,             \* the running collection cycle's locals
    metrics,         \* per hash: times store_events counted it inserted / skipped
    fetches,         \* non-empty pages fetched so far
    loops,           \* per process: the calls waiting and the cycles in progress
    upstream,        \* the transfers of the token on the chain, oldest first
    merkle_batches,  \* table merkle_batches, in id order
    event_proofs,    \* table event_proofs, in id order
    anchor_records,  \* table anchor_records, in id order
    sess,            \* per caller: the open create_merkle_batch transaction
    clock,           \* datetime.utcnow()
    threads,         \* MemorySaver: per thread_id the latest checkpoint
    tasks,           \* table human_review_tasks, in id order
    runs,            \* POST /mcp/run requests served so far
    resumes,         \* review decisions served so far
    grun,            \* one invocation of the graph, superstep by superstep
    calc,            \* one call of a pure function: its arguments and result
    reply            \* the response to the latest review decision request

collectVars == <<last_block, use_local, col, metrics, fetches, loops, upstream>>
batchVars == <<merkle_batches, event_proofs, anchor_records, sess, clock>>
auditVars == <<audit_events, collectVars, batchVars>>
flowVars == <<threads, tasks, runs, resumes, grun, calc, reply>>
vars == <<auditVars, flowVars>>

\* ------------------------------------------------------ core/db/database.py
\* get_last_block(source): the row's last_block, None without a row
get_last_block(stored) == stored

\* set_last_block(source, last_block): the value of the row after the commit
\* (a new row, or the existing row overwritten)
set_last_block(stored, n) == IF stored = None THEN n ELSE n

HasEvent(db, eid) == \E i \in 1..Len(db) : db[i].event_id = eid

RowsOf(db, eid) == Cardinality({i \in 1..Len(db) : db[i].event_id = eid})

MaxBlockOf(db) ==
    IF db = <<>> THEN 0
    ELSE LET S == {db[i].block_number : i \in 1..Len(db)}
         IN  CHOOSE m \in S : \A k \in S : k <= m

\* The AuditEvent row store_events builds from an upstream row
NewAuditEvent(tx) ==
    [event_id |-> tx.hash, block_number |-> tx.blockNumber, tx_hash |-> tx.hash,
     details_hash |-> details_hash_from_tx(tx), raw_json |-> tx]

\* session.rollback() in the except branch: every row added in this call and
\* not yet committed leaves the session
RollbackPending(pending) == <<>>

\* One iteration of `for tx in events`.  st = [pending, inserted, skipped,
\* max_block, outcome] where pending are the rows added to the session (flushed
\* by autoflush at the next query, committed at the end) and outcome records,
\* per row, which counter the iteration incremented.
StoreOne(db, st, tx) ==
    IF tx.malformed
    THEN [st EXCEPT !.pending = RollbackPending(st.pending),
                    !.outcome = Append(@, "failed")]
    ELSE LET ev == NewAuditEvent(tx) IN
         IF HasEvent(db \o st.pending, ev.event_id)
         THEN [st EXCEPT !.skipped = @ + 1,
                         !.outcome = Append(@, "skipped")]
         ELSE [st EXCEPT !.pending = Append(@, ev),
                         !.inserted = @ + 1,
                         !.outcome = Append(@, "inserted"),
                         !.max_block = IF @ = None \/ ev.block_number > @
                                       THEN ev.block_number ELSE @]

RECURSIVE StoreLoop(_, _, _)
StoreLoop(db, st, events) ==
    IF events = <<>> THEN st
    ELSE StoreLoop(db, StoreOne(db, st, Head(events)), Tail(events))

\* store_events(events): the table after session.commit() and the result
store_events(db, events) ==
    LET st == StoreLoop(db, [pending |-> <<>>, inserted |-> 0, skipped |-> 0,
                             max_block |-> None, outcome |-> <<>>], events)
    IN  [db |-> db \o st.pending, max_block |-> st.max_block,
         inserted |-> st.inserted, skipped |-> st.skipped,
         outcome |-> st.outcome]

\* per-hash totals of the rows counted inserted / skipped, over all calls
Counted(m, events, outcome) ==
    [h \in DOMAIN m |->
        [inserted |-> m[h].inserted + Cardinality({i \in 1..Len(events) :
                        events[i].hash = h /\ outcome[i] = "inserted"}),
         skipped |-> m[h].skipped + Cardinality({i \in 1..Len(events) :
                        events[i].hash = h /\ outcome[i] = "skipped"})]]

Idle == [pc |-> "idle"]

\* cursor written by the page branch: `if mb is not None and mb >
\* max_block_in_batch` then set_last_block(max(last, mb - 1)), else unchanged
PageCursor(cur, last, mbib, mb) ==
    IF mb # None /\ mb > mbib THEN Max(last, mb - 1) ELSE cur

\* the head branch without its max(..., last) and without its `> last` test
HeadCursorUnguarded(cur, last, head) ==
    IF head # None THEN head - SAFE_LAG ELSE cur

\* cursor written by the empty-first-page branch in remote mode
HeadCursor(cur, last, head) ==
    IF head # None /\ Max(head - SAFE_LAG, last) > last
    THEN Max(head - SAFE_LAG, last) ELSE cur

\* cursor written after the loop: `if max_block_in_batch > last`
FinalCursor(cur, last, mbib) == IF mbib > last THEN mbib ELSE cur

\* collect_usdt_transactions_once, up to the loop: read or initialise the cursor
CollectStart(page_limit, time_limit) ==
    /\ col.pc = "idle"
    /\ LET last == IF last_block = None THEN MaxBlockOf(audit_events)
                   ELSE last_block
       IN  /\ last_block' = last
           /\ col' = [pc |-> "loop", last |-> last, page |-> 1,
                      max_block_in_batch |-> last, page_limit |-> page_limit,
                      time_limit |-> time_limit]
    /\ UNCHANGED <<audit_events, use_local, metrics, fetches, loops, upstream,
                   batchVars>>
    /\ UNCHANGED flowVars

\* one loop iteration whose fetch returned rows; timeup: the time limit has
\* passed when it is tested after this page.  The page number only matters
\* below MaxPage (page_limit is at most 2, the chain has at most 2 pages).
PageStep(rows, timeup) ==
    /\ col.pc = "loop"
    /\ timeup => col.time_limit
    /\ LET r == store_events(audit_events, rows)
           mbib == IF r.max_block # None /\ r.max_block > col.max_block_in_batch
                   THEN r.max_block ELSE col.max_block_in_batch
           cur == PageCursor(last_block, col.last, col.max_block_in_batch,
                             r.max_block)
           page == Min(col.page + 1, MaxPage)
           stop == \/ (col.page_limit # None /\ page - 1 >= col.page_limit)
                   \/ timeup
       IN  /\ audit_events' = r.db
           /\ IF stop
              THEN /\ last_block' = FinalCursor(cur, col.last, mbib)
                   /\ col' = Idle
              ELSE /\ last_block' = cur
                   /\ col' = [col EXCEPT !.pc = "sleep", !.page = page,
                                         !.max_block_in_batch = mbib]

\* time.sleep(rate_sleep) at the end of a loop iteration returns
RateSleep ==
    /\ col.pc = "sleep"
    /\ col' = [col EXCEPT !.pc = "loop"]
    /\ UNCHANGED <<audit_events, last_block, use_local, metrics, fetches, loops,
                   upstream, batchVars>>
    /\ UNCHANGED flowVars

\* a page of any rows, with the counters of the rows store_events counted
CollectPage(rows, timeup) ==
    /\ fetches < MaxFetches
    /\ PageStep(rows, timeup)
    /\ metrics' = Counted(metrics, rows, store_events(audit_events, rows).outcome)
    /\ fetches' = fetches + 1
    /\ UNCHANGED <<use_local, loops, upstream, batchVars>>
    /\ UNCHANGED flowVars

\* a loop iteration whose fetch returned no rows (no more data, status # "1",
\* or a network failure): leave the loop
CollectEmpty(head) ==
    /\ col.pc = "loop"
    /\ LET cur == IF ~use_local /\ col.page = 1
                  THEN HeadCursor(last_block, col.last, head)
                  ELSE last_block
       IN  last_block' = FinalCursor(cur, col.last, col.max_block_in_batch)
    /\ col' = Idle
    /\ UNCHANGED <<audit_events, use_local, metrics, fetches, loops, upstream,
                   batchVars>>
    /\ UNCHANGED flowVars

\* ETHERSCAN_OFFSET: the rows of one page of the remote provider
ETHERSCAN_OFFSET == MaxPageLen

\* the rows of q with blockNumber >= start_block
FromBlock(q, start_block) == SelectSeq(q, LAMBDA r : r.blockNumber >= start_block)

\* fetch_transactions_incremental(start_block, page, offset) when the request
\* succeeds: the local backend is asked for startblock only and returns all
\* rows from it; the remote provider returns page `page` of `offset` rows
fetch_transactions_incremental(chain, local, start_block, page, offset) ==
    LET all == FromBlock(chain, start_block)
    IN  IF local THEN all
        ELSE SubSeq(all, (page - 1) * offset + 1, Min(page * offset, Len(all)))

\* the loop iteration of a cycle on the chain whose fetch returned rows
SyncPage(timeup) ==
    /\ col.pc = "loop"
    /\ LET rows == fetch_transactions_incremental(upstream, use_local,
                        col.last + 1, col.page, ETHERSCAN_OFFSET)
       IN  /\ rows # <<>>
           /\ PageStep(rows, timeup)
    /\ UNCHANGED <<use_local, metrics, fetches, loops, upstream, batchVars>>
    /\ UNCHANGED flowVars

\* the loop iteration whose fetch returned no row: no row from start_block
\* on this page
SyncEmpty(head) ==
    /\ col.pc = "loop"
    /\ fetch_transactions_incremental(upstream, use_local, col.last + 1,
                                      col.page, ETHERSCAN_OFFSET) = <<>>
    /\ CollectEmpty(head)

\* the loop iteration whose request failed (exception, or status # "1"):
\* fetch_transactions_incremental returns []
SyncFailed(head) == CollectEmpty(head)

PageLimits == {None, 1, 2}

\* ------------------------------------------------- the processes and loops
\* The processes of tx_audit: the MCP server (servers/mcp_koscom.py, tools
\* called by its event loop), the collector poller (apps/api/collector.py
\* main) and the Merkle poller (apps/api/merkle.py main).
Processes == {"server", "collector", "batcher"}

\* the tools of the server that write: the kind of cycle each one runs
ServerTools == {"collect_once", "make_batch", "anchor_batch"}

IdleLoops == [p \in Processes |-> [inbox |-> <<>>, running |-> <<>>]]

\* a tools/call request reaches the server
ToolCall(tool) ==
    /\ Len(loops["server"].inbox) < MaxInbox
    /\ loops' = [loops EXCEPT !["server"].inbox = Append(@, tool)]
    /\ UNCHANGED <<audit_events, last_block, use_local, col, metrics, fetches,
                   upstream, batchVars>>
    /\ UNCHANGED flowVars

\* a server that starts the handler of a request while another one runs
ToolDispatchThreaded ==
    /\ loops["server"].inbox # <<>>
    /\ loops' = [loops EXCEPT !["server"].inbox = Tail(@),
                              !["server"].running =
                                  Append(@, Head(loops["server"].inbox))]
    /\ UNCHANGED <<audit_events, last_block, use_local, col, metrics, fetches,
                   upstream, batchVars>>
    /\ UNCHANGED flowVars

\* the event loop calls the tool function of the next request: a plain `def`,
\* called in the loop's thread, so the loop takes no other request before it
\* returns
ToolDispatch ==
    /\ loops["server"].running = <<>>
    /\ loops["server"].inbox # <<>>
    /\ loops' = [loops EXCEPT !["server"].inbox = Tail(@),
                              !["server"].running = <<Head(loops["server"].inbox)>>]
    /\ UNCHANGED <<audit_events, last_block, use_local, col, metrics, fetches,
                   upstream, batchVars>>
    /\ UNCHANGED flowVars

\* run_poller / run_merkle_batch_poller: `while True:` calls one cycle
PollerCycle(p) ==
    /\ p \in {"collector", "batcher"}
    /\ loops[p].running = <<>>
    /\ loops' = [loops EXCEPT ![p].running =
                    <<IF p = "collector" THEN "collect_usdt_transactions_once"
                      ELSE "process_merkle_batches_once">>]
    /\ UNCHANGED <<audit_events, last_block, use_local, col, metrics, fetches,
                   upstream, batchVars>>
    /\ UNCHANGED flowVars

\* the innermost call in progress of process p returns (the pollers then
\* sleep and loop)
CycleReturn(p) ==
    /\ loops[p].running # <<>>
    /\ loops' = [loops EXCEPT ![p].running = SubSeq(@, 1, Len(@) - 1)]
    /\ UNCHANGED <<audit_events, last_block, use_local, col, metrics, fetches,
                   upstream, batchVars>>
    /\ UNCHANGED flowVars

\* ------------------------------------------------------ apps/api/merkle.py
Batchers == {"tool", "worker"}
BatchLimits == {1, 1000}
BatchModes == {"oldest", "latest"}
MinBlocks == {None, 2}
MinEvents == {1, 3}
AnchorChains == {"", "eth"}

HasProof(proofs, eid) == \E i \in 1..Len(proofs) : proofs[i].event_id = eid

\* ids of the rows of `db` in S ordered by (block_number, id), ascending
RECURSIVE OrderAsc(_, _)
OrderAsc(db, S) ==
    IF S = {} THEN <<>>
    ELSE LET i == CHOOSE a \in S : \A c \in S :
                    \/ db[a].block_number < db[c].block_number
                    \/ (db[a].block_number = db[c].block_number /\ a <= c)
         IN  <<i>> \o OrderAsc(db, S \ {i})

Reverse(q) == [i \in 1..Len(q) |-> q[Len(q) + 1 - i]]

Take(q, n) == SubSeq(q, 1, Min(n, Len(q)))

\* a query that orders by (block_number, id) ascending whatever the mode
SelectUnprovenAsc(db, proofs, limit, mode, min_block) ==
    LET S == {i \in 1..Len(db) :
                /\ ~HasProof(proofs, db[i].event_id)
                /\ (min_block # None => db[i].block_number >= min_block)}
    IN  Take(OrderAsc(db, S), limit)

\* the query of create_merkle_batch: ids of up to `limit` events that have no
\* EventProof, filtered by min_block, in the order of `mode`
SelectUnproven(db, proofs, limit, mode, min_block) ==
    LET S == {i \in 1..Len(db) :
                /\ ~HasProof(proofs, db[i].event_id)
                /\ (min_block # None => db[i].block_number >= min_block)}
        asc == OrderAsc(db, S)
    IN  Take(IF mode = "latest" THEN Reverse(asc) ELSE asc, limit)

\* h = ev.details_hash or ev.tx_hash or ""; normalize_hex(h)
LeafOf(ev) ==
    normalize_hex(IF ev.details_hash # <<>> THEN ev.details_hash ELSE ev.tx_hash)

\* cleaned_pairs: the selected events whose leaf is valid, in selection order
RECURSIVE CleanedPairs(_, _)
CleanedPairs(db, ids) ==
    IF ids = <<>> THEN <<>>
    ELSE LET ev == db[Head(ids)]
             rest == CleanedPairs(db, Tail(ids))
         IN  IF LeafOf(ev) # <<>>
             THEN <<[ev |-> ev, leaf |-> LeafOf(ev)]>> \o rest ELSE rest

\* _count_unproven_events(min_block)
CountUnproven(db, proofs, min_block) ==
    Cardinality({i \in 1..Len(db) :
                    /\ ~HasProof(proofs, db[i].event_id)
                    /\ (min_block # None => db[i].block_number >= min_block)})

\* create_merkle_batch up to sess.commit(): the rows the transaction holds,
\* NoTxn when the function returns None (mode: the argument of the call)
NoTxn == [pc |-> "idle"]

BatchTxn(db, proofs, limit, mode, min_block, batch_id) ==
    LET Rows(pairs, t) ==
            IF pairs = <<>> THEN NoTxn
            ELSE [pc |-> "commit", mode |-> mode,
                  mb |-> [batch_id |-> batch_id, merkle_root |-> t.root,
                          leaf_count |-> Len(pairs), anchored_tx |-> <<>>],
                  eps |-> [i \in 1..Len(pairs) |->
                              [event_id |-> pairs[i].ev.event_id,
                               batch_id |-> batch_id, leaf_index |-> i - 1,
                               proof_json |-> t.proofs[i]]]]
    IN  CHOOSE txn \in
            UNION UNION
              {{{Rows(pairs, t) :
                   t \in {merkle_tree_with_proofs(
                             [i \in 1..Len(pairs) |-> pairs[i].leaf])}} :
                 pairs \in {CleanedPairs(db, ids)}} :
               ids \in {SelectUnproven(db, proofs, limit, mode, min_block)}} :
            TRUE

\* a schema without the UNIQUE constraints
NoUniqueConstraint(batches, proofs, txn) == FALSE

\* the UNIQUE constraints of event_proofs.event_id and merkle_batches.batch_id,
\* checked when the transaction's rows are written
UniqueViolation(batches, proofs, txn) ==
    \/ \E i \in 1..Len(batches) : batches[i].batch_id = txn.mb.batch_id
    \/ \E i \in 1..Len(txn.eps) : HasProof(proofs, txn.eps[i].event_id)

\* create_merkle_batch(limit, mode, min_block) of caller b (the make_batch
\* tool, or the worker once its threshold test passed) up to the point where
\* its rows are built; _make_batch_id() reads the clock.  pc "done" and
\* "failed" record how the caller's previous call ended.
BatchBegin(b, limit, mode, min_block) ==
    /\ sess[b].pc \in {"idle", "done", "failed"}
    /\ clock < MaxClock
    /\ LET txn == BatchTxn(audit_events, event_proofs, limit, mode, min_block, clock)
       IN  /\ txn # NoTxn
           /\ sess' = [sess EXCEPT ![b] = txn]
    /\ clock' = clock + 1
    /\ UNCHANGED <<audit_events, collectVars, merkle_batches, event_proofs,
                   anchor_records>>
    /\ UNCHANGED flowVars

\* make_batch tool
MakeBatchBegin(limit, mode, min_block) == BatchBegin("tool", limit, mode, min_block)

\* process_merkle_batches_once: threshold test, then create_merkle_batch
WorkerBegin(min_events, limit, mode, min_block) ==
    /\ CountUnproven(audit_events, event_proofs, min_block) >= min_events
    /\ BatchBegin("worker", limit, mode, min_block)

\* sess.commit() of create_merkle_batch: the batch row and all its proofs are
\* written in one transaction, or the IntegrityError leaves nothing (the
\* exception propagates, sess.close() discards the transaction)
BatchCommit(b) ==
    /\ sess[b].pc = "commit"
    /\ IF UniqueViolation(merkle_batches, event_proofs, sess[b])
       THEN /\ sess' = [sess EXCEPT ![b] = [pc |-> "failed"]]
            /\ UNCHANGED <<merkle_batches, event_proofs>>
       ELSE /\ merkle_batches' = Append(merkle_batches, sess[b].mb)
            /\ event_proofs' = event_proofs \o sess[b].eps
            /\ sess' = [sess EXCEPT ![b] =
                          IF b = "worker"
                          THEN [pc |-> "anchor", batch_id |-> sess[b].mb.batch_id]
                          ELSE [pc |-> "done"]]
    /\ UNCHANGED <<audit_events, collectVars, anchor_records, clock>>
    /\ UNCHANGED flowVars

ANCHOR_CHAIN == "mock"
ANCHOR_TX_PREFIX == "mock-"

IndexOfBatch(batches, batch_id) ==
    IF \E i \in 1..Len(batches) : batches[i].batch_id = batch_id
    THEN CHOOSE i \in 1..Len(batches) :
            /\ batches[i].batch_id = batch_id
            /\ \A j \in 1..(i - 1) : batches[j].batch_id # batch_id
    ELSE 0

IndexOfAnchor(anchors, batch_id, chain) ==
    IF \E i \in 1..Len(anchors) :
            anchors[i].batch_id = batch_id /\ anchors[i].chain = chain
    THEN CHOOSE i \in 1..Len(anchors) :
            /\ anchors[i].batch_id = batch_id /\ anchors[i].chain = chain
            /\ \A j \in 1..(i - 1) :
                  ~(anchors[j].batch_id = batch_id /\ anchors[j].chain = chain)
    ELSE 0

\* anchor_batch(batch_id, chain): the tables after sess.commit(); chain = ""
\* stands for chain=None
anchor_batch(batches, anchors, batch_id, chain, now) ==
    LET chain_name == IF chain = "" THEN ANCHOR_CHAIN ELSE chain
        m == IndexOfBatch(batches, batch_id)
        a == IndexOfAnchor(anchors, batch_id, chain_name)
    IN  IF m = 0 THEN [batches |-> batches, anchors |-> anchors]
        ELSE LET tx_hash == IF batches[m].anchored_tx # <<>>
                            THEN batches[m].anchored_tx
                            ELSE <<ANCHOR_TX_PREFIX, batch_id>>
                 anchors2 ==
                    IF a = 0
                    THEN Append(anchors, [batch_id |-> batch_id, chain |-> chain_name,
                                          tx_hash |-> tx_hash, status |-> "anchored",
                                          anchored_at |-> now])
                    ELSE [anchors EXCEPT ![a].status = "anchored",
                                         ![a].tx_hash = IF @ # <<>> THEN @ ELSE tx_hash]
                 batches2 ==
                    IF batches[m].anchored_tx = <<>>
                    THEN [batches EXCEPT ![m].anchored_tx = tx_hash]
                    ELSE batches
             IN  [batches |-> batches2, anchors |-> anchors2]

\* process_merkle_batches_once, after the batch: anchor_batch(batch_id, chain)
WorkerAnchor(chain) ==
    /\ sess["worker"].pc = "anchor"
    /\ LET r == anchor_batch(merkle_batches, anchor_records,
                             sess["worker"].batch_id, chain, clock)
       IN  /\ merkle_batches' = r.batches
           /\ anchor_records' = r.anchors
    /\ sess' = [sess EXCEPT !["worker"] = [pc |-> "done"]]
    /\ UNCHANGED <<audit_events, collectVars, event_proofs, clock>>
    /\ UNCHANGED flowVars

\* a threshold test that lets every cycle through
BelowThresholdNever(pending, threshold) == FALSE

\* `if pending < threshold` of process_merkle_batches_once
BelowThreshold(pending, threshold) == pending < threshold

\* process_merkle_batches_once(min_events, limit, mode, min_block, chain) as
\* one transaction after the other of a single caller: the three tables
\* afterwards and the result dict (None: no batch, no anchor)
process_merkle_batches_once(db, batches, proofs, anchors, min_events, limit, mode, min_block, chain, now) ==
    LET pending == CountUnproven(db, proofs, min_block)
        nothing == [batches |-> batches, proofs |-> proofs, anchors |-> anchors,
                    result |-> [pending_events |-> pending, batch |-> None,
                                anchor |-> None]]
        Anchored(txn) ==
            LET r == anchor_batch(Append(batches, txn.mb), anchors,
                                  txn.mb.batch_id, chain, now + 1)
            IN  [batches |-> r.batches, proofs |-> proofs \o txn.eps,
                 anchors |-> r.anchors,
                 result |-> [pending_events |-> pending,
                             batch |-> txn.mb.batch_id,
                             anchor |-> txn.mb.batch_id]]
    IN  IF BelowThreshold(pending, min_events) THEN nothing
        ELSE CHOOSE out \in
                {IF txn = NoTxn THEN nothing
                 ELSE IF UniqueViolation(batches, proofs, txn) THEN nothing
                 ELSE Anchored(txn) :
                   txn \in {BatchTxn(db, proofs, limit, mode, min_block, now)}} :
                TRUE

\* one iteration of run_merkle_batch_poller, whose arguments calc holds; the
\* worker's sess keeps the result of the cycle
PollerProcessOnce ==
    /\ calc.op = "run_merkle_batch_poller"
    /\ sess["worker"].pc = "idle"
    /\ clock < MaxCycleClock
    /\ \E r \in {process_merkle_batches_once(audit_events, merkle_batches,
                    event_proofs, anchor_records, calc.min_events, calc.limit,
                    calc.mode, None, "", clock)} :
           /\ merkle_batches' = r.batches
           /\ event_proofs' = r.proofs
           /\ anchor_records' = r.anchors
           /\ sess' = [sess EXCEPT !["worker"] = [pc |-> "done", result |-> r.result]]
           /\ clock' = IF r.result.batch # None THEN clock + 1 ELSE clock
    /\ UNCHANGED <<audit_events, collectVars>>
    /\ UNCHANGED flowVars

\* time.sleep(interval) of run_merkle_batch_poller returns: the next
\* iteration of `while True` begins
PollerSleep ==
    /\ calc.op = "run_merkle_batch_poller"
    /\ sess["worker"].pc = "done"
    /\ sess' = [sess EXCEPT !["worker"] = [pc |-> "idle"]]
    /\ UNCHANGED <<audit_events, collectVars, merkle_batches, event_proofs,
                   anchor_records, clock>>
    /\ UNCHANGED flowVars

\* ------------------------------------- servers/mcp_koscom.py: anchor_batch tool
ToolChains == {"mock", "eth"}

\* the two queries of the anchor_batch tool: index of the batch, index of the
\* first AnchorRecord of (batch_id, chain); 0 for None
AnchorRead(batches, anchors, batch_id, chain) ==
    [m |-> IndexOfBatch(batches, batch_id),
     a |-> IndexOfAnchor(anchors, batch_id, chain)]

\* a tool that stamps the record again on every call
AnchorWriteRestamp(anchors, rd, batch_id, chain, now) ==
    IF rd.a = 0
    THEN Append(anchors, [batch_id |-> batch_id, chain |-> chain,
                          tx_hash |-> <<"mock-", batch_id>>,
                          status |-> "anchored", anchored_at |-> now])
    ELSE [anchors EXCEPT ![rd.a].status = "anchored", ![rd.a].anchored_at = now]

\* session.commit() of the tool after the read rd: INSERT of a new record when
\* the read found none, else UPDATE of the record it found (tx_hash and
\* anchored_at are set only when empty, which a stored record never is)
AnchorWrite(anchors, rd, batch_id, chain, now) ==
    IF rd.a = 0
    THEN Append(anchors, [batch_id |-> batch_id, chain |-> chain,
                          tx_hash |-> <<"mock-", batch_id>>,
                          status |-> "anchored", anchored_at |-> now])
    ELSE [anchors EXCEPT ![rd.a].status = "anchored",
                         ![rd.a].tx_hash = IF @ # <<>> THEN @
                                           ELSE <<"mock-", batch_id>>]

\* the dict the tool returns, read from ar after the commit (anchors: the
\* table after the commit)
AnchorReturn(anchors, rd, batch_id, chain) ==
    LET ar == IF rd.a = 0 THEN anchors[Len(anchors)] ELSE anchors[rd.a]
    IN  [batch_id |-> batch_id, chain |-> chain, status |-> ar.status,
         tx_hash |-> ar.tx_hash, anchored_at |-> ar.anchored_at]

\* anchor_batch tool up to session.commit(): the batch and the record are
\* read, now = datetime.utcnow(); an unknown batch_id returns the error dict
AnchorToolBegin(batch_id, chain) ==
    /\ sess["tool"].pc \in {"idle", "done", "failed"}
    /\ clock < MaxAnchorClock
    /\ LET rd == AnchorRead(merkle_batches, anchor_records, batch_id, chain)
       IN  sess' = [sess EXCEPT !["tool"] =
                      IF rd.m = 0 THEN [pc |-> "failed"]
                      ELSE [pc |-> "anchor_commit", rd |-> rd, batch_id |-> batch_id,
                            chain |-> chain, now |-> clock]]
    /\ clock' = clock + 1
    /\ UNCHANGED <<audit_events, collectVars, merkle_batches, event_proofs,
                   anchor_records>>
    /\ UNCHANGED flowVars

\* session.commit() and the return of the anchor_batch tool
AnchorToolCommit ==
    /\ sess["tool"].pc = "anchor_commit"
    /\ LET t == sess["tool"]
       IN  /\ anchor_records' = AnchorWrite(anchor_records, t.rd, t.batch_id,
                                            t.chain, t.now)
           /\ sess' = [sess EXCEPT !["tool"] =
                          [pc |-> "done",
                           ret |-> AnchorReturn(anchor_records', t.rd, t.batch_id,
                                                t.chain)]]
    /\ UNCHANGED <<audit_events, collectVars, merkle_batches, event_proofs, clock>>
    /\ UNCHANGED flowVars

\* the anchor_batch tool run without another session in between
AnchorTool(batch_id, chain) ==
    /\ sess["tool"].pc \in {"idle", "done", "failed"}
    /\ clock < MaxAnchorClock
    /\ LET rd == AnchorRead(merkle_batches, anchor_records, batch_id, chain)
       IN  IF rd.m = 0
           THEN /\ sess' = [sess EXCEPT !["tool"] = [pc |-> "failed"]]
                /\ UNCHANGED anchor_records
           ELSE /\ anchor_records' = AnchorWrite(anchor_records, rd, batch_id,
                                                 chain, clock)
                /\ sess' = [sess EXCEPT !["tool"] =
                               [pc |-> "done",
                                ret |-> AnchorReturn(anchor_records', rd, batch_id,
                                                     chain)]]
    /\ clock' = clock + 1
    /\ UNCHANGED <<audit_events, collectVars, merkle_batches, event_proofs>>
    /\ UNCHANGED flowVars

\* ids of the first `limit` rows, in id order, whose details_hash is NULL or ""
MissingHash(db, limit) ==
    {i \in 1..Len(db) :
        /\ db[i].details_hash = <<>>
        /\ Cardinality({j \in 1..i : db[j].details_hash = <<>>}) <= limit}

\* backfill_hashes tool of mcp_koscom: details_hash from raw_json for the rows
\* that miss it
backfill_hashes(db, limit) ==
    [i \in 1..Len(db) |->
        IF i \in MissingHash(db, limit) /\ db[i].raw_json # <<>>
        THEN [db[i] EXCEPT !.details_hash = details_hash_from_tx(db[i].raw_json)]
        ELSE db[i]]

BackfillHashes(limit) ==
    /\ audit_events' = backfill_hashes(audit_events, limit)
    /\ UNCHANGED <<collectVars, batchVars>>
    /\ UNCHANGED flowVars

\* =========================================================== report-master
\* Ratios are integers: collateral in 1/1000, peg deviation and PoR failure
\* rate in 1/10000, liquidity in 1/100.
\* ------------------------------------------------------- core/risk_rules.py
grade_collateral_ratio(r) ==
    IF r >= 1150 THEN "A" ELSE IF r >= 1100 THEN "B" ELSE IF r >= 1030 THEN "C" ELSE "D"

grade_peg_deviation(d) ==
    IF d <= 20 THEN "A" ELSE IF d <= 50 THEN "B" ELSE IF d <= 100 THEN "C" ELSE "D"

grade_liquidity_ratio(r) ==
    IF r >= 30 THEN "A" ELSE IF r >= 20 THEN "B" ELSE IF r >= 10 THEN "C" ELSE "D"

POR_FAILURE_CRITICAL == 100
POR_FAILURE_WARNING == 10

\* ------------------------------------------------------- graph/mcp_flow.py
NoData == [kind |-> "none"]

\* the mock raw_data load_period_data builds
MockData ==
    [kind |-> "data", days_covered |-> 28, total_days |-> 31,
     collateral_samples |-> 120, peg_samples |-> 120, liquidity_samples |-> 120,
     last_update_hours_ago |-> 1,
     avg_collateral_ratio |-> 1120, avg_peg_deviation |-> 20,
     avg_liquidity_ratio |-> 25, avg_por_failure_rate |-> 300]

\* raw_data a caller can preload into the initial state
RawDatas ==
    {[MockData EXCEPT !.days_covered = d, !.avg_collateral_ratio = c,
                      !.avg_peg_deviation = g, !.avg_liquidity_ratio = l,
                      !.avg_por_failure_rate = f] :
        d \in {28, 10}, c \in {1120, 1200}, g \in {20, 200}, l \in {25, 5, 35},
        f \in {300, 0}}

NoSummary ==
    [final_grade |-> "", revision_status |-> "", key_points |-> <<>>,
     human_feedback |-> <<>>, error |-> ""]

\* the initial state of run_mcp (api/mcp.py), raw_data preloaded or absent
InitialState(period, raw) ==
    [period |-> period, raw_data |-> raw, retry_counts |-> 0, max_retries |-> 3,
     data_quality |-> [has_critical_gap |-> FALSE, max_retry_exceeded |-> FALSE],
     collateral_monthly |-> "", peg_monthly |-> "", disclosure_monthly |-> "",
     liquidity_monthly |-> "", por_monthly |-> "", consistency |-> "",
     summary |-> NoSummary, human_review |-> "", report_path |-> "",
     human_decision |-> "pending", human_feedback |-> <<>>,
     revision_count |-> 0, max_revisions |-> 3, notified |-> 0]

load_period_data(st) ==
    IF st.raw_data # NoData THEN st ELSE [st EXCEPT !.raw_data = MockData]

\* the critical issues of data_quality_check: coverage < 0.8, fewer than 100
\* collateral samples, an empty metric, data older than 24 hours
HasCriticalGap(raw) ==
    \/ raw.days_covered * 10 < 8 * Max(raw.total_days, 1)
    \/ raw.collateral_samples < 100
    \/ \E n \in {raw.collateral_samples, raw.peg_samples, raw.liquidity_samples} :
          n <= 0
    \/ raw.last_update_hours_ago >= 24

\* a check that gives up one retry late (current_retries > max)
data_quality_check_late(st) ==
    LET gap == HasCriticalGap(st.raw_data)
        exceeded == gap /\ st.retry_counts > st.max_retries
    IN  [st EXCEPT !.data_quality = [has_critical_gap |-> gap,
                                     max_retry_exceeded |-> exceeded],
                   !.retry_counts = IF gap /\ ~exceeded THEN @ + 1 ELSE @]

data_quality_check(st) ==
    LET gap == HasCriticalGap(st.raw_data)
        exceeded == gap /\ st.retry_counts >= st.max_retries
    IN  [st EXCEPT !.data_quality = [has_critical_gap |-> gap,
                                     max_retry_exceeded |-> exceeded],
                   !.retry_counts = IF gap /\ ~exceeded THEN @ + 1 ELSE @]

eval_collateral_monthly(st) ==
    [st EXCEPT !.collateral_monthly =
        IF st.raw_data = NoData THEN "F"
        ELSE grade_collateral_ratio(st.raw_data.avg_collateral_ratio)]

eval_peg_monthly(st) ==
    [st EXCEPT !.peg_monthly =
        IF st.raw_data = NoData THEN "F"
        ELSE grade_peg_deviation(st.raw_data.avg_peg_deviation)]

eval_disclosure_monthly(st) == [st EXCEPT !.disclosure_monthly = "A"]

eval_liquidity_monthly(st) ==
    [st EXCEPT !.liquidity_monthly =
        IF st.raw_data = NoData THEN "F"
        ELSE grade_liquidity_ratio(st.raw_data.avg_liquidity_ratio)]

eval_por_monthly(st) ==
    [st EXCEPT !.por_monthly =
        IF st.raw_data = NoData THEN "F"
        ELSE IF st.raw_data.avg_por_failure_rate > POR_FAILURE_CRITICAL THEN "D"
        ELSE IF st.raw_data.avg_por_failure_rate > POR_FAILURE_WARNING THEN "B"
        ELSE "A"]

\* cross_check_consistency: the status only ("low_sample" is never set by
\* eval_collateral_monthly)
cross_check_consistency(st) ==
    LET c == st.collateral_monthly
        l == st.liquidity_monthly
        g == st.peg_monthly
        r == st.por_monthly
        liq_issue == c = "A" /\ l = "D"
        other_issue == \/ (g = "D" /\ c = "A" /\ l = "A")
                       \/ (r = "D" /\ c = "A" /\ l = "A" /\ g = "A")
    IN  [st EXCEPT !.consistency =
            IF liq_issue THEN "recheck_liquidity"
            ELSE IF other_issue THEN "recheck_collateral"
            ELSE "ok"]

GradeRank(g) ==
    CASE g = "A" -> 4 [] g = "B" -> 3 [] g = "C" -> 2 [] g = "D" -> 1
      [] g = "F" -> 0 [] OTHER -> 2

RankGrade(n) ==
    CASE n = 4 -> "A" [] n = 3 -> "B" [] n = 2 -> "C" [] n = 1 -> "D" [] OTHER -> "F"

\* the best of the grades instead of the worst (max for min)
BestGrade(grades) ==
    LET ranks == {GradeRank(grades[i]) : i \in 1..Len(grades)}
    IN  RankGrade(CHOOSE m \in ranks : \A k \in ranks : m >= k)

\* worst_grade = reverse_map[min(grade_map.get(g, 2) for g in grades)]
WorstGrade(grades) ==
    LET ranks == {GradeRank(grades[i]) : i \in 1..Len(grades)}
    IN  RankGrade(CHOOSE m \in ranks : \A k \in ranks : m <= k)

LIMIT_POINTS == << <<"limit reached">>, <<"manual review needed">> >>

summarize_conclusion(st) ==
    IF st.human_decision = "revise" /\ st.revision_count >= st.max_revisions
    THEN [st EXCEPT !.summary = [final_grade |-> "PENDING",
                                 revision_status |-> "limit_reached",
                                 key_points |-> LIMIT_POINTS,
                                 human_feedback |-> st.human_feedback,
                                 error |-> ""]]
    ELSE LET grades == <<st.collateral_monthly, st.peg_monthly,
                         st.disclosure_monthly, st.liquidity_monthly,
                         st.por_monthly>>
             points == << <<"Collateral grade", st.collateral_monthly>>,
                          <<"Peg grade", st.peg_monthly>>,
                          <<"Disclosure grade", st.disclosure_monthly>>,
                          <<"Liquidity grade", st.liquidity_monthly>>,
                          <<"PoR grade", st.por_monthly>>,
                          <<"Consistency status", st.consistency>> >>
         IN  [st EXCEPT !.summary =
                [final_grade |-> WorstGrade(grades),
                 revision_status |-> IF st.human_decision = "revise"
                                     THEN "revised" ELSE "initial",
                 key_points |-> IF st.human_feedback # <<>>
                                THEN Append(points, <<"[Reviewer Feedback]">>
                                                        \o st.human_feedback)
                                ELSE points,
                 human_feedback |-> st.human_feedback, error |-> ""]]

human_review(st) == [st EXCEPT !.human_review = st.human_decision]

generate_report(st) == [st EXCEPT !.report_path = "REP-" \o st.period]

notify_approved_report(st) ==
    [st EXCEPT !.human_decision = "approve", !.notified = @ + 1]

data_quality_fail(st) ==
    [st EXCEPT !.summary = [final_grade |-> "D", revision_status |-> "",
                            key_points |-> <<>>, human_feedback |-> <<>>,
                            error |-> "DATA_QUALITY_FAILURE"]]

route_after_data_quality(st) ==
    IF st.data_quality.max_retry_exceeded THEN "data_quality_fail"
    ELSE IF st.data_quality.has_critical_gap THEN "load_period_data"
    ELSE "eval_collateral_monthly"

route_after_consistency(st) ==
    IF st.consistency = "recheck_collateral" THEN "eval_collateral_monthly"
    ELSE IF st.consistency = "recheck_liquidity" THEN "eval_liquidity_monthly"
    ELSE "summarize_conclusion"

\* a router that sends every decision back to summarize_conclusion
route_always_revise(st) == "summarize_conclusion"

\* the router's `state["revision_count"] = rev + 1` changes its own copy of
\* the state only: a conditional edge returns a route, not an update
route_after_human_review(st) ==
    IF st.human_decision = "approve" THEN "notify_approved_report"
    ELSE IF st.human_decision = "revise" THEN "summarize_conclusion"
    ELSE "notify_approved_report"

END == "__end__"

\* one superstep of the compiled graph (interrupt_for_human=True): the node
\* `node` runs on st; result [st, next]
Superstep(st, node) ==
    CASE node = "load_period_data" ->
            [st |-> load_period_data(st), next |-> "data_quality_check"]
      [] node = "data_quality_check" ->
            LET s2 == data_quality_check(st)
            IN  [st |-> s2, next |-> route_after_data_quality(s2)]
      [] node = "eval_collateral_monthly" ->
            [st |-> eval_collateral_monthly(st), next |-> "eval_peg_monthly"]
      [] node = "eval_peg_monthly" ->
            [st |-> eval_peg_monthly(st), next |-> "eval_disclosure_monthly"]
      [] node = "eval_disclosure_monthly" ->
            [st |-> eval_disclosure_monthly(st), next |-> "eval_liquidity_monthly"]
      [] node = "eval_liquidity_monthly" ->
            [st |-> eval_liquidity_monthly(st), next |-> "eval_por_monthly"]
      [] node = "eval_por_monthly" ->
            [st |-> eval_por_monthly(st), next |-> "cross_check_consistency"]
      [] node = "cross_check_consistency" ->
            LET s2 == cross_check_consistency(st)
            IN  [st |-> s2, next |-> route_after_consistency(s2)]
      [] node = "summarize_conclusion" ->
            [st |-> summarize_conclusion(st), next |-> "generate_report"]
      [] node = "generate_report" ->
            [st |-> generate_report(st), next |-> "human_review"]
      [] node = "human_review" ->
            LET s2 == human_review(st)
            IN  [st |-> s2, next |-> route_after_human_review(s2)]
      [] node = "notify_approved_report" ->
            [st |-> notify_approved_report(st), next |-> END]
      [] node = "data_quality_fail" ->
            [st |-> data_quality_fail(st), next |-> END]

\* recursion_limit of an invocation whose config names none (run_mcp, resume)
RECURSION_LIMIT == 25

\* ainvoke: supersteps from `node` until END, the interrupt before
\* human_review, or the recursion limit.  `first` is TRUE for the first
\* superstep of a resumed run, which runs the interrupted node.
RECURSIVE Pregel(_, _, _, _)
Pregel(st, node, step, first) ==
    IF node = END THEN [st |-> st, next |-> END, error |-> FALSE]
    ELSE IF node = "human_review" /\ ~first
    THEN [st |-> st, next |-> node, error |-> FALSE]
    ELSE IF step >= RECURSION_LIMIT THEN [st |-> st, next |-> node, error |-> TRUE]
    ELSE LET r == Superstep(st, node)
         IN  Pregel(r.st, r.next, step + 1, FALSE)

\* ------------------------------------------ services/human_review_service.py
Periods == {"2025-10", "2025-11"}

\* thread_id = f"monthly-{period}"
ThreadId(period) == "monthly-" \o period

ThreadIds == {ThreadId(p) : p \in Periods}

NoThread == [exists |-> FALSE]

NOTICE == "[revision limit reached: manual review needed]"

\* resume_human_review_flow(thread_id, decision, comment) on checkpoint th:
\* [ok, th]; ok = FALSE when it raises (no checkpoint, GraphRecursionError)
resume_human_review_flow(th, decision, comment) ==
    IF ~th.exists THEN [ok |-> FALSE, th |-> th]
    ELSE LET revision_count == IF decision = "revise"
                               THEN th.st.revision_count + 1
                               ELSE th.st.revision_count
             feedback == IF revision_count >= th.st.max_revisions
                         THEN Append(th.st.human_feedback, NOTICE)
                         ELSE IF comment # <<>> THEN comment
                         ELSE th.st.human_feedback
             updated == [th.st EXCEPT !.human_decision = decision,
                                      !.human_feedback = feedback,
                                      !.revision_count = revision_count]
             r == Pregel(updated, th.next, 0, TRUE)
         IN  [ok |-> ~r.error,
              th |-> [exists |-> TRUE, st |-> r.st, next |-> r.next]]

\* -------------------------------------------------------- crud/human_review.py
create_task(tbl, period, flow_run_id, final_grade) ==
    Append(tbl, [id |-> Len(tbl) + 1, period |-> period, status |-> "pending",
                 flow_run_id |-> flow_run_id, final_grade |-> final_grade,
                 last_decision |-> ""])

\* get_task_by_thread_id: scalar_one_or_none() over the pending / revised
\* tasks of the thread: [error, id], id = 0 for None, error = TRUE for
\* MultipleResultsFound
get_task_by_thread_id(tbl, thread_id) ==
    LET S == {i \in 1..Len(tbl) :
                /\ tbl[i].flow_run_id = thread_id
                /\ tbl[i].status \in {"pending", "revised"}}
    IN  IF Cardinality(S) > 1 THEN [error |-> TRUE, id |-> 0]
        ELSE IF S = {} THEN [error |-> FALSE, id |-> 0]
        ELSE [error |-> FALSE, id |-> CHOOSE i \in S : TRUE]

decide_task(tbl, task_id, decision) ==
    [tbl EXCEPT ![task_id].status =
                    IF decision \in {"approved", "rejected", "revised"}
                    THEN decision ELSE decision,
                ![task_id].last_decision =
                    CASE decision = "approved" -> "approve"
                      [] decision = "rejected" -> "reject"
                      [] decision = "revised" -> "revise"
                      [] OTHER -> @]

mark_task_completed(tbl, task_id) == [tbl EXCEPT ![task_id].status = "completed"]

\* ------------------------------------------------------------------ api/mcp.py
\* the state run_mcp's ainvoke starts from: the input keys overwrite the
\* thread's checkpointed values, the other keys keep them
RunInput(th, period) ==
    IF th.exists
    THEN [th.st EXCEPT !.period = period, !.revision_count = 0,
                       !.max_revisions = 3, !.human_decision = "pending",
                       !.human_feedback = <<>>, !.retry_counts = 0,
                       !.max_retries = 3]
    ELSE InitialState(period, NoData)

\* POST /mcp/run
RunMcp(period) ==
    /\ runs < MaxRuns
    /\ runs' = runs + 1
    /\ LET tid == ThreadId(period)
           r == Pregel(RunInput(threads[tid], period), "load_period_data", 0, FALSE)
       IN  /\ threads' = [threads EXCEPT ![tid] =
                            [exists |-> TRUE, st |-> r.st, next |-> r.next]]
           /\ tasks' = IF r.error THEN tasks
                       ELSE create_task(tasks, period, tid, r.st.summary.final_grade)
    /\ UNCHANGED <<auditVars, calc, reply, resumes, grun>>

\* the response of a decision entry point: the HTTP status it answers with
NoReply == [entry |-> "none"]

Reply(entry, thread_id, status) ==
    [entry |-> entry, thread_id |-> thread_id, status |-> status]

\* ------------------------------------------------------- api/human_review.py
\* POST /mcp/review/submit
SubmitReview(thread_id, raw_decision, comment) ==
    /\ resumes < MaxResumes
    /\ resumes' = resumes + 1
    /\ LET flow_decision == IF raw_decision = "approve" THEN "approve" ELSE "revise"
           task == get_task_by_thread_id(tasks, thread_id)
           r == resume_human_review_flow(threads[thread_id], flow_decision, comment)
       IN  IF task.error \/ task.id = 0
           THEN /\ UNCHANGED <<threads, tasks>>
                /\ reply' = Reply("submit", thread_id,
                                  IF task.error THEN 500 ELSE 404)
           ELSE /\ threads' = [threads EXCEPT ![thread_id] = r.th]
                /\ tasks' = IF r.ok THEN mark_task_completed(tasks, task.id)
                            ELSE tasks
                /\ reply' = Reply("submit", thread_id,
                                  IF r.ok THEN 200 ELSE 500)
    /\ UNCHANGED <<auditVars, calc, runs, grun>>

\* ---------------------------------------------------- api/slack_interactions.py
\* approve_button: handle_approval(task_id, "Approved via Slack")
SlackApproval(task_id) ==
    /\ resumes < MaxResumes
    /\ resumes' = resumes + 1
    /\ task_id \in 1..Len(tasks)
    /\ LET tid == tasks[task_id].flow_run_id
           r == resume_human_review_flow(threads[tid], "approve",
                                         <<"Approved via Slack">>)
       IN  /\ tasks' = decide_task(tasks, task_id, "approved")
           /\ threads' = [threads EXCEPT ![tid] = r.th]
           /\ reply' = Reply("approve_button", tid, 200)
    /\ UNCHANGED <<auditVars, calc, runs, grun>>

\* reject_button: handle_rejection(task_id, "Rejected via Slack"); no resume
SlackRejection(task_id) ==
    /\ resumes < MaxResumes
    /\ resumes' = resumes + 1
    /\ task_id \in 1..Len(tasks)
    /\ tasks' = decide_task(tasks, task_id, "rejected")
    /\ reply' = Reply("reject_button", tasks[task_id].flow_run_id, 200)
    /\ UNCHANGED <<auditVars, calc, threads, runs, grun>>

\* revise_button: handle_revision(task_id, "Revise via Slack")
SlackRevision(task_id) ==
    /\ resumes < MaxResumes
    /\ resumes' = resumes + 1
    /\ task_id \in 1..Len(tasks)
    /\ LET tid == tasks[task_id].flow_run_id
           r == resume_human_review_flow(threads[tid], "revise",
                                         <<"Revise via Slack">>)
       IN  /\ tasks' = decide_task(tasks, task_id, "revised")
           /\ threads' = [threads EXCEPT ![tid] = r.th]
           /\ reply' = Reply("revise_button", tid, 200)
    /\ UNCHANGED <<auditVars, calc, runs, grun>>

\* ------------------------------------------------------------ api/review.py
\* POST /api/review/tasks/{task_id}/decide; an unknown task_id answers 404
DecideReviewTask(task_id, decision) ==
    /\ resumes < MaxResumes
    /\ resumes' = resumes + 1
    /\ IF task_id \in 1..Len(tasks)
       THEN LET tid == tasks[task_id].flow_run_id
                r == resume_human_review_flow(threads[tid], decision, <<>>)
            IN  /\ tasks' = decide_task(tasks, task_id, decision)
                /\ threads' = [threads EXCEPT ![tid] = r.th]
                /\ reply' = Reply("decide", tid, 200)
       ELSE /\ UNCHANGED <<threads, tasks>>
            /\ reply' = Reply("decide", "", 404)
    /\ UNCHANGED <<auditVars, calc, runs, grun>>

\* the process restarts: the MemorySaver of mcp_graph_with_interrupt is
\* built anew and holds no checkpoint, table human_review_tasks is kept
Restart ==
    /\ \E t \in ThreadIds : threads[t].exists
    /\ threads' = [t \in ThreadIds |-> NoThread]
    /\ UNCHANGED <<auditVars, calc, reply, tasks, runs, resumes, grun>>

\* ------------------------------------------- the graph, superstep by superstep
NoRun == [status |-> "none"]

\* the next superstep of the invocation (path: the nodes run so far); afterwards the run is done (END),
\* interrupted (before human_review) or still running
GraphStep ==
    /\ grun.status = "running"
    /\ grun.step < RECURSION_LIMIT
    /\ LET r == Superstep(grun.st, grun.next)
       IN  grun' = [st |-> r.st, next |-> r.next, step |-> grun.step + 1,
                    path |-> Append(grun.path, grun.next),
                    status |-> IF r.next = END THEN "done"
                               ELSE IF r.next = "human_review" THEN "interrupted"
                               ELSE "running"]
    /\ UNCHANGED <<auditVars, calc, reply, threads, tasks, runs, resumes>>

\* the recursion limit is reached before the graph stopped: GraphRecursionError
GraphOutOfSteps ==
    /\ grun.status = "running"
    /\ grun.step >= RECURSION_LIMIT
    /\ grun' = [grun EXCEPT !.status = "out_of_steps"]
    /\ UNCHANGED <<auditVars, calc, reply, threads, tasks, runs, resumes>>

\* ============================================================ bank_monitering
\* Amounts are integers; an exposure of the engine is kept in hundredths of
\* the payload's unit (balance * 100, or balance * pct for an auto-split row).
\* Limits are per mille, bucket bounds per cent; a share is compared with a
\* limit by cross-multiplication.
\* ---------------------------------------------------------- core/constants.py
EXPOSURE_LIMITS == [single_institution |-> 250, group |-> 400, policy_bank |-> 300]

\* CREDIT_RATING_MULTIPLIERS, per cent; no rating: the "A-이하" key
CreditMultiplier(rating) ==
    CASE rating = "AAA" -> 100 [] rating \in {"AA+", "AA", "AA-"} -> 90
      [] rating \in {"A+", "A"} -> 70 [] OTHER -> 50

BucketKeys == <<"OVERNIGHT", "WITHIN_7D", "WITHIN_1M", "WITHIN_3M">>

MATURITY_BUCKETS ==
    [b \in {"OVERNIGHT", "WITHIN_7D", "WITHIN_1M", "WITHIN_3M"} |->
        CASE b = "OVERNIGHT" -> [min_pct |-> 30, max_pct |-> 40]
          [] b = "WITHIN_3M" -> [min_pct |-> 10, max_pct |-> 20]
          [] OTHER -> [min_pct |-> 20, max_pct |-> 30]]

\* ------------------------------------------------ app_mcp/tools/policy_check.py
_normalize_maturity_bucket(raw) ==
    CASE raw \in {"ON", "O/N", "CALL", "OVERNIGHT"} -> "OVERNIGHT"
      [] raw \in {"7D", "7_DAY", "WITHIN_7D"} -> "WITHIN_7D"
      [] raw \in {"1M", "1_MONTH", "WITHIN_1M"} -> "WITHIN_1M"
      [] raw \in {"3M", "3_MONTH", "WITHIN_3M"} -> "WITHIN_3M"
      [] OTHER -> "UNKNOWN"

\* _detect_institution_type on the bank ids of the model
_detect_institution_type(bank_id) ==
    CASE bank_id \in {"kdb", "ibk"} -> "policy_bank"
      [] bank_id = "ksd" -> "custody_agent"
      [] bank_id \in {"shinhan", "kb", "woori", "hana"} -> "commercial_bank"
      [] OTHER -> "other"

AUTO_MATURITY_DISTRIBUTION ==
    [b \in {"OVERNIGHT", "WITHIN_7D", "WITHIN_1M", "WITHIN_3M"} |->
        CASE b = "OVERNIGHT" -> 80 [] b = "WITHIN_7D" -> 10
          [] b = "WITHIN_1M" -> 7 [] OTHER -> 3]

BankExposureInput(x, exposure, bucket) ==
    [bank_id |-> x.bank_id, group_id |-> x.group_id,
     is_policy_bank |-> x.is_policy_bank
                          \/ _detect_institution_type(x.bank_id) = "policy_bank",
     exposure |-> exposure, credit_rating |-> x.credit_rating,
     maturity_bucket |-> bucket, type |-> _detect_institution_type(x.bank_id)]

_split_auto_maturity(x) ==
    [k \in 1..Len(BucketKeys) |->
        BankExposureInput(x, x.exposure * AUTO_MATURITY_DISTRIBUTION[BucketKeys[k]],
                          BucketKeys[k])]

\* _parse_exposures_payload on payload["exposures"]
RECURSIVE _parse_exposures_payload(_)
_parse_exposures_payload(items) ==
    IF items = <<>> THEN <<>>
    ELSE LET x == Head(items)
             bucket == _normalize_maturity_bucket(x.maturity_bucket)
             rows == IF bucket \in {"UNKNOWN", "OVERNIGHT"}
                     THEN _split_auto_maturity(x)
                     ELSE <<BankExposureInput(x, x.exposure * 100, bucket)>>
         IN  rows \o _parse_exposures_payload(Tail(items))

\* ------------------------------------------------------ core/policy_engine.py
RECURSIVE _calc_total_exposure(_)
_calc_total_exposure(exposures) ==
    IF exposures = <<>> THEN 0
    ELSE Head(exposures).exposure + _calc_total_exposure(Tail(exposures))

\* _severity_from_ratio(share / limit), share = amount / total, limit per
\* mille; warning_threshold 0.90, critical_threshold 1.00
_severity_from_ratio(amount, total, limit_pm) ==
    IF limit_pm <= 0 THEN "OK"
    ELSE IF amount * 1000 >= limit_pm * total THEN "CRITICAL"
    ELSE IF amount * 10000 >= 9 * limit_pm * total THEN "WARNING"
    ELSE "OK"

\* the violation of one row or group; excess_x1000 = 1000 * excess_amount
LimitViolation(type, code, level, bank_id, amount, total, limit_pm) ==
    [type |-> type, level |-> level, code |-> code, bank_id |-> bank_id,
     current_exposure |-> amount, total_exposure |-> total, limit_pm |-> limit_pm,
     excess_x1000 |-> Max(0, amount * 1000 - limit_pm * total)]

\* the single-institution loop: one test per row of `exposures`
RECURSIVE SingleLimitLoop(_, _)
SingleLimitLoop(exposures, total) ==
    IF exposures = <<>> THEN <<>>
    ELSE LET e == Head(exposures)
             limit == IF e.is_policy_bank THEN EXPOSURE_LIMITS.policy_bank
                      ELSE EXPOSURE_LIMITS.single_institution
             level == _severity_from_ratio(e.exposure, total, limit)
             rest == SingleLimitLoop(Tail(exposures), total)
         IN  IF level = "OK" THEN rest
             ELSE <<LimitViolation("EXPOSURE_LIMIT", "SINGLE_LIMIT", level, e.bank_id,
                                   e.exposure, total, limit)>> \o rest

RECURSIVE SumWhere(_, _, _)
SumWhere(exposures, field, value) ==
    IF exposures = <<>> THEN 0
    ELSE (IF Head(exposures)[field] = value THEN Head(exposures).exposure ELSE 0)
            + SumWhere(Tail(exposures), field, value)

\* the group loop: groups in the order of their first row
RECURSIVE GroupLimitLoop(_, _, _, _)
GroupLimitLoop(rows, exposures, total, seen) ==
    IF rows = <<>> THEN <<>>
    ELSE LET g == Head(rows).group_id
             amount == SumWhere(exposures, "group_id", g)
             level == _severity_from_ratio(amount, total, EXPOSURE_LIMITS.group)
             rest == GroupLimitLoop(Tail(rows), exposures, total, seen \cup {g})
         IN  IF g = "" \/ g \in seen \/ level = "OK" THEN rest
             ELSE <<LimitViolation("EXPOSURE_LIMIT", "GROUP_LIMIT", level, g,
                                   amount, total, EXPOSURE_LIMITS.group)>> \o rest

check_exposure_limits(exposures) ==
    LET total == _calc_total_exposure(exposures)
    IN  IF exposures = <<>> \/ total <= 0 THEN <<>>
        ELSE SingleLimitLoop(exposures, total)
                \o GroupLimitLoop(exposures, exposures, total, {})

RECURSIVE RatingLimitLoop(_, _)
RatingLimitLoop(exposures, total) ==
    IF exposures = <<>> THEN <<>>
    ELSE LET e == Head(exposures)
             base == IF e.is_policy_bank THEN EXPOSURE_LIMITS.policy_bank
                     ELSE EXPOSURE_LIMITS.single_institution
             \* limit_pct = base_limit * multiplier (a whole number per mille
             \* for every base limit and multiplier of core/constants.py)
             limit == (base * CreditMultiplier(e.credit_rating)) \div 100
             level == _severity_from_ratio(e.exposure, total, limit)
             rest == RatingLimitLoop(Tail(exposures), total)
         IN  IF level = "OK" THEN rest
             ELSE <<[type |-> "CREDIT_RATING_LIMIT", level |-> level,
                     code |-> "RATING_ADJUSTED_LIMIT", bank_id |-> e.bank_id,
                     current_exposure |-> e.exposure, total_exposure |-> total]>>
                    \o rest

check_credit_rating_limits(exposures) ==
    LET total == _calc_total_exposure(exposures)
    IN  IF exposures = <<>> \/ total <= 0 THEN <<>>
        ELSE RatingLimitLoop(exposures, total)

\* the level of a bucket with current < min_pct:
\* ratio = (min_pct - current) / min_pct; WARNING if ratio >= 1 - 0.90;
\* CRITICAL if ratio >= 1 - 1.00 and current < min_pct * 0.90
UnderLevel(amount, total, min_pct) ==
    LET warn == min_pct > 0 /\ (min_pct * total - amount * 100) * 10 >= min_pct * total
        crit == amount * 1000 < 9 * min_pct * total
    IN  IF crit THEN "CRITICAL" ELSE IF warn THEN "WARNING" ELSE "OK"

RECURSIVE MaturityLoop(_, _, _)
MaturityLoop(keys, exposures, total) ==
    IF keys = <<>> THEN <<>>
    ELSE LET b == Head(keys)
             cfg == MATURITY_BUCKETS[b]
             amount == SumWhere(exposures, "maturity_bucket", b)
             over == amount * 100 > cfg.max_pct * total
             under == ~over /\ amount * 100 < cfg.min_pct * total
             level == IF over THEN "CRITICAL"
                      ELSE IF under THEN UnderLevel(amount, total, cfg.min_pct)
                      ELSE "OK"
             direction == IF over THEN "OVER" ELSE IF under THEN "UNDER" ELSE "OK"
             rest == MaturityLoop(Tail(keys), exposures, total)
         IN  IF level = "OK" THEN rest
             ELSE <<[type |-> "MATURITY_DISTRIBUTION", level |-> level,
                     code |-> "MATURITY_" \o direction, bucket |-> b,
                     direction |-> direction, current_exposure |-> amount,
                     total_exposure |-> total]>> \o rest

check_maturity_distribution(exposures) ==
    LET total == _calc_total_exposure(exposures)
    IN  IF exposures = <<>> \/ total <= 0 THEN <<>>
        ELSE MaturityLoop(BucketKeys, exposures, total)

generate_violations_report(exposures) ==
    LET all == check_exposure_limits(exposures)
                  \o check_credit_rating_limits(exposures)
                  \o check_maturity_distribution(exposures)
        levels == {all[i].level : i \in 1..Len(all)}
    IN  [violations |-> all,
         highest_level |-> IF "CRITICAL" \in levels THEN "CRITICAL"
                           ELSE IF "WARNING" \in levels THEN "WARNING" ELSE "OK"]

\* check_policy_compliance(payload): custody agents are left out
check_policy_compliance(items) ==
    generate_violations_report(
        SelectSeq(_parse_exposures_payload(items),
                  LAMBDA e : e.type # "custody_agent"))

\* --------------------------------------------- report-master: the documents
\* A file system fs = [template, files]: whether the report template
\* (reports/templates/monthly_report_template.docx) exists, and the paths of
\* the documents that exist.
ARTIFACTS_DIR == "artifacts/"

ReportRelPath(period) == "REP-" \o period \o ".docx"

\* fill_docx_template(template_path, output_path, context): [raised, path, files]
fill_docx_template(fs, output_path) ==
    IF ~fs.template
    THEN [raised |-> TRUE, path |-> "", files |-> fs.files]
    ELSE [raised |-> FALSE, path |-> output_path,
          files |-> fs.files \cup {output_path}]

\* fill_docx_template_safe: a blank document when the template is missing
fill_docx_template_safe(fs, output_path) ==
    LET r == fill_docx_template(fs, output_path)
    IN  IF r.raised
        THEN [raised |-> FALSE, path |-> output_path,
              files |-> fs.files \cup {output_path}]
        ELSE r

\* generate_monthly_report(period, state, rel_output_path)
generate_monthly_report(fs, period, rel_output_path) ==
    IF ~fs.template
    THEN [raised |-> TRUE, path |-> "", files |-> fs.files]
    ELSE fill_docx_template(fs, ARTIFACTS_DIR \o rel_output_path)

\* generate_report(state) with the file system it writes to: [st, files]
generate_report_files(fs, st) ==
    LET report_rel_path == ReportRelPath(st.period)
        r == generate_monthly_report(fs, st.period, report_rel_path)
        generated_path == IF r.raised THEN report_rel_path ELSE r.path
    IN  [st |-> [st EXCEPT !.report_path = generated_path], files |-> r.files]

\* ------------------------------------------------- calls of pure functions
NoCalc == [op |-> "none"]

\* the call calc holds returns
Return(out) ==
    /\ ~calc.done
    /\ calc' = [calc EXCEPT !.done = TRUE, !.out = out]
    /\ UNCHANGED <<auditVars, reply, threads, tasks, runs, resumes, grun>>

\* merkle_tree_with_proofs(calc.leaves)
MerkleCall ==
    /\ calc.op = "merkle_tree_with_proofs"
    /\ Return(merkle_tree_with_proofs(calc.leaves))

\* check_policy_compliance(calc.payload)
PolicyCall ==
    /\ calc.op = "check_policy_compliance"
    /\ Return(check_policy_compliance(calc.payload))

\* PolicyEngine.check_maturity_distribution(calc.exposures)
MaturityCall ==
    /\ calc.op = "check_maturity_distribution"
    /\ Return(check_maturity_distribution(calc.exposures))

\* summarize_conclusion(calc.st)
SummarizeCall ==
    /\ calc.op = "summarize_conclusion"
    /\ Return(summarize_conclusion(calc.st).summary)

\* set_last_block(SOURCE_NAME, n) on the stored cursor
SetLastBlockCall(n) ==
    /\ last_block' = set_last_block(last_block, n)
    /\ calc' = [op |-> "set_last_block", n |-> n,
                before |-> get_last_block(last_block)]
    /\ UNCHANGED <<audit_events, use_local, col, metrics, fetches, loops, upstream,
                   batchVars>>
    /\ UNCHANGED <<threads, tasks, runs, resumes, grun, reply>>

\* generate_report(calc.st) on the file system calc.fs
GenerateReportCall ==
    /\ calc.op = "generate_report"
    /\ Return(generate_report_files(calc.fs, calc.st))

\* ------------------------------------------------------------ specifications
InitBatchVars ==
    /\ merkle_batches = <<>>
    /\ event_proofs = <<>>
    /\ anchor_records = <<>>
    /\ sess = [b \in Batchers |-> NoTxn]
    /\ clock = 1

InitCollectVars ==
    /\ last_block = None
    /\ col = Idle
    /\ metrics = [h \in UpstreamHashes |-> [inserted |-> 0, skipped |-> 0]]
    /\ fetches = 0
    /\ loops = IdleLoops
    /\ upstream = <<>>

InitFlowVars ==
    /\ threads = [t \in ThreadIds |-> NoThread]
    /\ tasks = <<>>
    /\ runs = 0
    /\ resumes = 0
    /\ grun = NoRun
    /\ reply = NoReply
    /\ calc = NoCalc

\* the collector alone
InitCollect ==
    /\ audit_events \in InitialStores
    /\ use_local \in BOOLEAN
    /\ InitCollectVars
    /\ InitBatchVars
    /\ InitFlowVars

NextCollect ==
    \/ \E pl \in PageLimits, tl \in BOOLEAN : CollectStart(pl, tl)
    \/ \E rows \in Pages, timeup \in BOOLEAN : CollectPage(rows, timeup)
    \/ RateSleep
    \/ \E head \in Heads : CollectEmpty(head)

SpecCollect == InitCollect /\ [][NextCollect]_vars

\* collector, backfill, the make_batch tool and the batch worker together
GoodPages == {p \in Pages : \A i \in 1..Len(p) : ~p[i].malformed}

InitBatch ==
    /\ audit_events \in InitialStores
    /\ use_local = TRUE
    /\ InitCollectVars
    /\ InitBatchVars
    /\ InitFlowVars

NextBatch ==
    \/ CollectStart(1, FALSE)
    \/ \E rows \in GoodPages : CollectPage(rows, FALSE)
    \/ CollectEmpty(None)
    \/ \E limit \in BatchLimits : BackfillHashes(limit)
    \/ \E limit \in BatchLimits, mode \in BatchModes, min_block \in MinBlocks :
          MakeBatchBegin(limit, mode, min_block)
    \/ \E min_events \in MinEvents, limit \in BatchLimits, mode \in BatchModes,
          min_block \in MinBlocks : WorkerBegin(min_events, limit, mode, min_block)
    \/ \E b \in Batchers : BatchCommit(b)
    \/ \E chain \in AnchorChains : WorkerAnchor(chain)

SpecBatch == InitBatch /\ [][NextBatch]_vars

\* stored events the batcher finds when the anchoring calls start
AnchorStores ==
    { <<LegacyRow(HLEGACY, 1)>>,
      <<LegacyRow(HLEGACY, 1), LegacyRow(H2, 2)>> }

InitAnchor ==
    /\ audit_events \in AnchorStores
    /\ use_local = TRUE
    /\ InitCollectVars
    /\ InitBatchVars
    /\ InitFlowVars

BatchIds == 1..(MaxClock - 1)

\* make_batch, the batch worker and the anchor_batch tool, the tool's commit
\* interleaved with the other session
NextAnchor ==
    \/ \E limit \in BatchLimits : MakeBatchBegin(limit, "oldest", None)
    \/ \E limit \in BatchLimits : WorkerBegin(1, limit, "oldest", None)
    \/ \E b \in Batchers : BatchCommit(b)
    \/ \E chain \in AnchorChains : WorkerAnchor(chain)
    \/ \E batch_id \in BatchIds, chain \in ToolChains : AnchorToolBegin(batch_id, chain)
    \/ AnchorToolCommit

SpecAnchor == InitAnchor /\ [][NextAnchor]_vars

\* the same callers, each anchor_batch call run to its end before the next
NextAnchorSeq ==
    \/ \E limit \in BatchLimits : MakeBatchBegin(limit, "oldest", None)
    \/ \E limit \in BatchLimits : WorkerBegin(1, limit, "oldest", None)
    \/ \E b \in Batchers : BatchCommit(b)
    \/ \E chain \in AnchorChains : WorkerAnchor(chain)
    \/ \E batch_id \in BatchIds, chain \in ToolChains : AnchorTool(batch_id, chain)

SpecAnchorSeq == InitAnchor /\ [][NextAnchorSeq]_vars

InitAuditVars ==
    /\ audit_events = <<>>
    /\ use_local = TRUE
    /\ InitCollectVars
    /\ InitBatchVars

\* set_last_block called with any block number on any stored cursor
InitCursor ==
    /\ audit_events = <<>>
    /\ use_local \in BOOLEAN
    /\ last_block \in {None} \cup 0..MaxCursor
    /\ col = Idle
    /\ metrics = [h \in UpstreamHashes |-> [inserted |-> 0, skipped |-> 0]]
    /\ fetches = 0
    /\ loops = IdleLoops
    /\ upstream = <<>>
    /\ InitBatchVars
    /\ InitFlowVars

NextCursor == \E n \in 0..MaxCursor : SetLastBlockCall(n)

SpecCursor == InitCursor /\ [][NextCursor]_vars

\* documents left by earlier runs, in the artifacts directory or beside it
ReportPaths ==
    UNION {{ARTIFACTS_DIR \o ReportRelPath(p), ReportRelPath(p)} : p \in Periods}

\* generate_report with or without the template, over any earlier documents
InitReport ==
    /\ InitAuditVars
    /\ threads = [t \in ThreadIds |-> NoThread]
    /\ tasks = <<>>
    /\ runs = 0
    /\ resumes = 0
    /\ grun = NoRun
    /\ reply = NoReply
    /\ \E p \in Periods, template \in BOOLEAN, files \in SUBSET ReportPaths :
          calc = [op |-> "generate_report",
                  st |-> InitialState(p, MockData),
                  fs |-> [template |-> template, files |-> files],
                  done |-> FALSE, out |-> <<>>]

NextReport == GenerateReportCall

SpecReport == InitReport /\ [][NextReport]_vars

\* the rows on the chain: the upstream rows and one more transfer of block 2
H3 == <<"0", "x", "c", "4">>

ChainRows == UpstreamRows \cup {[hash |-> H3, blockNumber |-> 2, malformed |-> FALSE]}

\* the chains: up to MaxChain different rows, oldest block first
Chains ==
    {q \in UNION {[1..n -> ChainRows] : n \in 0..MaxChain} :
        /\ \A i, j \in 1..Len(q) : i < j => q[i].blockNumber <= q[j].blockNumber
        /\ \A i, j \in 1..Len(q) : i # j => q[i] # q[j]}

\* the head the provider reports: None, or a block at or after the chain's
\* last transfer
ChainHeads == {None} \cup {SAFE_LAG + b : b \in 2..3}

\* collection cycles, one after the other, on a chain that stays as it is
InitSync ==
    /\ audit_events = <<>>
    /\ use_local \in BOOLEAN
    /\ last_block = None
    /\ col = Idle
    /\ metrics = [h \in UpstreamHashes |-> [inserted |-> 0, skipped |-> 0]]
    /\ fetches = 0
    /\ loops = IdleLoops
    /\ upstream \in Chains
    /\ InitBatchVars
    /\ InitFlowVars

NextSync ==
    \/ \E pl \in PageLimits, tl \in BOOLEAN : CollectStart(pl, tl)
    \/ \E timeup \in BOOLEAN : SyncPage(timeup)
    \/ RateSleep
    \/ \E head \in ChainHeads : SyncEmpty(head)
    \/ \E head \in ChainHeads : SyncFailed(head)

SpecSync == InitSync /\ [][NextSync]_vars

\* the cycle's loop goes on: an iteration follows the previous one, the sleep
\* between two pages ends, the fetch of an exhausted source returns no rows,
\* and a time limit that is set passes
SpecSyncFair ==
    /\ SpecSync
    /\ WF_vars(\E timeup \in BOOLEAN : SyncPage(timeup))
    /\ SF_vars(SyncPage(TRUE))
    /\ WF_vars(RateSleep)
    /\ WF_vars(\E head \in ChainHeads : SyncEmpty(head))

\* events a store can hold when the poller starts: collected rows, a legacy
\* row with a valid tx_hash, legacy rows whose hash is not hexadecimal
StoredEvents ==
    {NewAuditEvent(r) : r \in {u \in UpstreamRows : ~u.malformed}}
        \cup {LegacyRow(HLEGACY, 1), LegacyRow(HINVALID, 1), LegacyRow(HINVALID, 3)}

BatcherStores ==
    {q \in UNION {[1..n -> StoredEvents] : n \in 1..MaxStored} :
        \A i, j \in 1..Len(q) : i # j => q[i].event_id # q[j].event_id}

\* the Merkle poller alone, with the arguments it was started with
InitBatcher ==
    /\ audit_events \in BatcherStores
    /\ use_local = TRUE
    /\ InitCollectVars
    /\ InitBatchVars
    /\ threads = [t \in ThreadIds |-> NoThread]
    /\ tasks = <<>>
    /\ runs = 0
    /\ resumes = 0
    /\ grun = NoRun
    /\ reply = NoReply
    /\ \E me \in MinEvents, limit \in {1, 2, 1000}, mode \in BatchModes :
          calc = [op |-> "run_merkle_batch_poller", min_events |-> me,
                  limit |-> limit, mode |-> mode]

NextBatcher ==
    \/ PollerProcessOnce
    \/ PollerSleep

SpecBatcher == InitBatcher /\ [][NextBatcher]_vars

\* the poller's loop goes on: after each sleep the next cycle runs
SpecBatcherFair == SpecBatcher /\ WF_vars(PollerProcessOnce) /\ WF_vars(PollerSleep)

\* the three processes side by side
InitLoops ==
    /\ audit_events = <<>>
    /\ use_local \in BOOLEAN
    /\ InitCollectVars
    /\ InitBatchVars
    /\ InitFlowVars

NextLoops ==
    \/ \E tool \in ServerTools : ToolCall(tool)
    \/ ToolDispatch
    \/ \E p \in {"collector", "batcher"} : PollerCycle(p)
    \/ \E p \in Processes : CycleReturn(p)

SpecLoops == InitLoops /\ [][NextLoops]_vars

\* the review workflow behind its HTTP and Slack entry points
InitFlow ==
    /\ InitAuditVars
    /\ InitFlowVars

Decisions == {"approve", "reject", "revise"}
Comments == {<<>>, <<"redo collateral">>}

NextFlow ==
    \/ \E p \in Periods : RunMcp(p)
    \/ \E t \in ThreadIds, d \in Decisions, c \in Comments : SubmitReview(t, d, c)
    \/ \E k \in 1..MaxRuns : SlackApproval(k)
    \/ \E k \in 1..MaxRuns : SlackRejection(k)
    \/ \E k \in 1..MaxRuns : SlackRevision(k)

SpecFlow == InitFlow /\ [][NextFlow]_vars

\* the decision entry points of the review API, across restarts of the process
NextReview ==
    \/ \E p \in Periods : RunMcp(p)
    \/ \E t \in ThreadIds, d \in Decisions, c \in Comments : SubmitReview(t, d, c)
    \/ \E k \in 1..MaxRuns : SlackApproval(k)
    \/ \E k \in 1..MaxRuns : SlackRejection(k)
    \/ \E k \in 1..MaxRuns : SlackRevision(k)
    \/ \E k \in 1..MaxRuns, d \in {"approve", "reject"} : DecideReviewTask(k, d)
    \/ Restart

SpecReview == InitFlow /\ [][NextReview]_vars

\* normalized leaves: the 64 hex digits of a details_hash or tx_hash, here
\* one byte each
LeafHexes == {normalize_hex(H1), normalize_hex(H2), normalize_hex(HLEGACY)}

RECURSIVE SeqsUpTo(_, _)
SeqsUpTo(S, n) ==
    IF n = 0 THEN {<<>>}
    ELSE LET shorter == SeqsUpTo(S, n - 1)
         IN  shorter \cup {Append(q, x) : q \in shorter, x \in S}

\* merkle_tree_with_proofs on every non-empty list of up to MaxLeaves leaves
InitMerkle ==
    /\ InitAuditVars
    /\ threads = [t \in ThreadIds |-> NoThread]
    /\ tasks = <<>>
    /\ runs = 0
    /\ resumes = 0
    /\ grun = NoRun
    /\ reply = NoReply
    /\ \E leaves \in SeqsUpTo(LeafHexes, MaxLeaves) \ {<<>>} :
          calc = [op |-> "merkle_tree_with_proofs", leaves |-> leaves,
                  done |-> FALSE, out |-> <<>>]

NextMerkle == MerkleCall

SpecMerkle == InitMerkle /\ [][NextMerkle]_vars

\* payload["exposures"] items: one per institution, maturity_bucket absent
\* ("") or given, balances in the payload's unit
PayloadBanks == <<"A", "B", "kdb">>
PayloadBalances == {200, 300, 600}
PayloadBuckets == {"", "7D"}

PayloadItem(bank_id, balance, bucket, group_id) ==
    [bank_id |-> bank_id, exposure |-> balance, maturity_bucket |-> bucket,
     group_id |-> group_id, credit_rating |-> "AAA", is_policy_bank |-> FALSE]

Payloads ==
    {[k \in 1..Len(PayloadBanks) |->
         PayloadItem(PayloadBanks[k], bal[k], bkt[k], g)] :
        bal \in [1..Len(PayloadBanks) -> PayloadBalances],
        bkt \in [1..Len(PayloadBanks) -> PayloadBuckets],
        g \in {"", "fg"}}

\* exposures of the engine: one row per maturity bucket
BucketAmounts ==
    [b \in {"OVERNIGHT", "WITHIN_7D", "WITHIN_1M", "WITHIN_3M"} |->
        CASE b = "OVERNIGHT" -> {10, 28, 30, 45}
          [] b = "WITHIN_7D" -> {30, 19}
          [] b = "WITHIN_1M" -> {40, 22}
          [] OTHER -> {20, 8}]

BucketExposures ==
    {[k \in 1..Len(BucketKeys) |->
         BankExposureInput(PayloadItem("A", 0, "", ""), amt[k] * 100, BucketKeys[k])] :
        amt \in {f \in [1..Len(BucketKeys) -> {8, 10, 19, 20, 22, 28, 30, 40, 45}] :
                    \A k \in 1..Len(BucketKeys) : f[k] \in BucketAmounts[BucketKeys[k]]}}

\* the policy tool and the maturity check on every input of the sets above
InitPolicy ==
    /\ InitAuditVars
    /\ threads = [t \in ThreadIds |-> NoThread]
    /\ tasks = <<>>
    /\ runs = 0
    /\ resumes = 0
    /\ grun = NoRun
    /\ reply = NoReply
    /\ \/ \E payload \in Payloads :
             calc = [op |-> "check_policy_compliance", payload |-> payload,
                     done |-> FALSE, out |-> <<>>]
       \/ \E exposures \in BucketExposures :
             calc = [op |-> "check_maturity_distribution", exposures |-> exposures,
                     done |-> FALSE, out |-> <<>>]

NextPolicy ==
    \/ PolicyCall
    \/ MaturityCall

SpecPolicy == InitPolicy /\ [][NextPolicy]_vars

\* the grades the five eval nodes write (Grade.value, or "F" on an error)
GradeValues == {"A", "B", "C", "D", "F"}

\* the states summarize_conclusion is entered with: five evaluated
\* dimensions, on the first pass or after a revise decision
SummaryStates ==
    {[InitialState(p, MockData) EXCEPT
         !.collateral_monthly = c, !.peg_monthly = g, !.disclosure_monthly = d,
         !.liquidity_monthly = l, !.por_monthly = r, !.consistency = "ok",
         !.human_decision = h, !.revision_count = n] :
        p \in Periods, c \in GradeValues, g \in GradeValues, d \in GradeValues,
        l \in GradeValues, r \in GradeValues, h \in {"pending", "revise"},
        n \in {0, 3}}

InitSummary ==
    /\ InitAuditVars
    /\ threads = [t \in ThreadIds |-> NoThread]
    /\ tasks = <<>>
    /\ runs = 0
    /\ resumes = 0
    /\ grun = NoRun
    /\ reply = NoReply
    /\ \E st \in SummaryStates :
          calc = [op |-> "summarize_conclusion", st |-> st,
                  done |-> FALSE, out |-> NoSummary]

NextSummary == SummarizeCall

SpecSummary == InitSummary /\ [][NextSummary]_vars

\* one invocation of the graph on an initial state with any raw_data
InitGraph ==
    /\ InitAuditVars
    /\ threads = [t \in ThreadIds |-> NoThread]
    /\ tasks = <<>>
    /\ runs = 0
    /\ resumes = 0
    /\ calc = NoCalc
    /\ reply = NoReply
    /\ \E p \in Periods, raw \in RawDatas \cup {NoData} :
          grun = [st |-> InitialState(p, raw), next |-> "load_period_data",
                  step |-> 0, path |-> <<>>, status |-> "running"]

NextGraph ==
    \/ GraphStep
    \/ GraphOutOfSteps

SpecGraph == InitGraph /\ [][NextGraph]_vars

\* ainvoke runs the supersteps of an invocation one after the other until it
\* returns or raises
SpecGraphFair == SpecGraph /\ WF_vars(NextGraph)

\* ------------------------------------------------------------------ claims
EventOf(db, eid) == db[CHOOSE i \in 1..Len(db) : db[i].event_id = eid]

BatchOf(batches, batch_id) == batches[IndexOfBatch(batches, batch_id)]

\* C1: every stored EventProof folds, from its event's leaf along its proof
\* path, to the merkle_root of the batch it belongs to.
C1_ProofsFoldToRoot ==
    \A i \in 1..Len(event_proofs) :
        LET ep == event_proofs[i] IN
        /\ HasEvent(audit_events, ep.event_id)
        /\ IndexOfBatch(merkle_batches, ep.batch_id) # 0
        /\ Fold(LeafOf(EventOf(audit_events, ep.event_id)), ep.proof_json)
              = BatchOf(merkle_batches, ep.batch_id).merkle_root

\* C2: no event_id has more than one EventProof, and a create_merkle_batch
\* call commits its batch row together with all of its proofs or nothing:
\* every proof belongs to a stored batch and every stored batch has exactly
\* leaf_count proofs.
C2_OneProofPerEvent ==
    /\ \A i, j \in 1..Len(event_proofs) :
          event_proofs[i].event_id = event_proofs[j].event_id => i = j
    /\ \A i \in 1..Len(event_proofs) :
          IndexOfBatch(merkle_batches, event_proofs[i].batch_id) # 0
    /\ \A m \in 1..Len(merkle_batches) :
          Cardinality({i \in 1..Len(event_proofs) :
                          event_proofs[i].batch_id = merkle_batches[m].batch_id})
             = merkle_batches[m].leaf_count

\* a concurrent create_merkle_batch call lost: its commit failed while the
\* winner's proofs are stored
C2_LoserSeen ==
    /\ \E b \in Batchers : sess[b].pc = "failed"
    /\ event_proofs # <<>>

\* C3: SyncState.last_block never decreases from one step of a collection
\* cycle to the next (None, before the first cycle, is below every block).
C3_CursorMonotone == [][last_block' >= last_block]_vars

\* a second cycle ended at the chain head after a first one moved the cursor
C3_CursorMoved ==
    /\ col.pc = "idle"
    /\ fetches >= 1
    /\ last_block >= 2
    /\ ~use_local

\* C4: a transfer row that store_events has counted (inserted or skipped) has
\* exactly one AuditEvent row, and was counted inserted exactly once: the
\* first time inserted, every later time skipped.
C4_InsertOnceThenSkip ==
    \A h \in UpstreamHashes :
        metrics[h].inserted + metrics[h].skipped >= 1 =>
            /\ RowsOf(audit_events, h) = 1
            /\ metrics[h].inserted = 1

Suspended(th) == th.exists /\ th.next = "human_review"

OpenTasks(tbl, thread_id) ==
    {i \in 1..Len(tbl) :
        /\ tbl[i].flow_run_id = thread_id
        /\ tbl[i].status \in {"pending", "revised"}}

\* C5: in every state of every workflow thread, revision_count is at most
\* max_revisions.
C5_RevisionBound ==
    \A t \in ThreadIds :
        threads[t].exists =>
            threads[t].st.revision_count <= threads[t].st.max_revisions

\* C6: once summarize_conclusion has emitted the PENDING / limit_reached
\* summary, the workflow has gone on to notify_approved_report and ended: it
\* is not suspended at human_review again.
C6_LimitTerminates ==
    \A t \in ThreadIds :
        (threads[t].exists
            /\ threads[t].st.summary.revision_status = "limit_reached")
        => (threads[t].next = END /\ threads[t].st.notified >= 1)

\* C7: a revise requested on a suspended thread whose revision_count is below
\* max_revisions increments revision_count, regenerates a graded summary
\* (not PENDING) with the reviewer's feedback, when there is any, among its
\* key_points, and leaves the thread suspended at human_review again.
C7_ReviseRegenerates ==
    [][\A t \in ThreadIds :
          (/\ Suspended(threads[t])
           /\ threads[t].st.revision_count < threads[t].st.max_revisions
           /\ threads'[t].st.revision_count = threads[t].st.revision_count + 1)
          => /\ Suspended(threads'[t])
             /\ threads'[t].st.summary.revision_status = "revised"
             /\ threads'[t].st.summary.final_grade \in {"A", "B", "C", "D", "F"}
             /\ threads'[t].st.human_feedback # <<>> =>
                \E k \in 1..Len(threads'[t].st.summary.key_points) :
                   threads'[t].st.summary.key_points[k]
                      = <<"[Reviewer Feedback]">> \o threads'[t].st.human_feedback]_vars

\* C8: the revision_count of a thread_id never decreases, whatever request is
\* served, POST /mcp/run for the same period included.
C8_RevisionMonotone ==
    [][\A t \in ThreadIds :
          threads[t].exists =>
              threads'[t].st.revision_count >= threads[t].st.revision_count]_vars

\* C9: whenever a workflow is suspended at human_review, exactly one
\* HumanReviewTask of its flow_run_id is pending or revised.
C9_OneOpenTask ==
    \A t \in ThreadIds :
        Suspended(threads[t]) => Cardinality(OpenTasks(tasks, t)) = 1

\* C10: an invocation whose raw_data passes the data-quality check never
\* ends on the recursion limit: after a bounded number of re-evaluations it
\* gets past cross_check_consistency.
C10_NoRecursionAbort ==
    (grun.status = "out_of_steps") => HasCriticalGap(grun.st.raw_data)

EvalNodes ==
    {"eval_collateral_monthly", "eval_peg_monthly", "eval_disclosure_monthly",
     "eval_liquidity_monthly", "eval_por_monthly", "cross_check_consistency",
     "summarize_conclusion"}

Count(path, node) == Cardinality({i \in 1..Len(path) : path[i] = node})

\* the invocation has returned or raised
Stopped == grun.status \in {"done", "interrupted", "out_of_steps"}

\* the invocation works on raw_data that has a critical gap
GapRun == grun.st.raw_data # NoData /\ HasCriticalGap(grun.st.raw_data)

\* C11: when raw_data has a critical gap on every check, retry_counts never
\* exceeds max_retries, no eval stage ever runs, and the invocation ends at
\* data_quality_fail after exactly max_retries returns to load_period_data,
\* with summary final_grade D and error DATA_QUALITY_FAILURE.
C11_RetryThenFail ==
    /\ [](grun.st.retry_counts <= grun.st.max_retries)
    /\ [](GapRun =>
            /\ \A i \in 1..Len(grun.path) : grun.path[i] \notin EvalNodes
            /\ Stopped =>
                  /\ grun.status = "done"
                  /\ grun.path[Len(grun.path)] = "data_quality_fail"
                  /\ Count(grun.path, "load_period_data") = grun.st.max_retries + 1
                  /\ Count(grun.path, "data_quality_check") = grun.st.max_retries + 1
                  /\ grun.st.summary.final_grade = "D"
                  /\ grun.st.summary.error = "DATA_QUALITY_FAILURE")
    /\ (GapRun ~> Stopped)

\* an invocation on raw_data with a critical gap has ended at data_quality_fail
C11_FailReached ==
    /\ grun.status = "done"
    /\ GapRun
    /\ grun.st.retry_counts = grun.st.max_retries
    /\ grun.path[Len(grun.path)] = "data_quality_fail"

\* notify_approved_report runs of the thread so far
Notified(th) == IF th.exists THEN th.st.notified ELSE 0

AnchorsOf(anchors, batch_id, chain) ==
    {i \in 1..Len(anchors) :
        anchors[i].batch_id = batch_id /\ anchors[i].chain = chain}

\* C13: anchor_records never holds two records of the same (batch_id, chain).
C13_AnchorUnique ==
    \A i, j \in 1..Len(anchor_records) :
        (/\ anchor_records[i].batch_id = anchor_records[j].batch_id
         /\ anchor_records[i].chain = anchor_records[j].chain) => i = j

\* C14: with anchor_batch calls run one after the other, a call never
\* changes a record that is already stored, (batch_id, chain) has a single
\* record after every call, and the tool returns that record's status,
\* tx_hash and anchored_at: a second call for the same (batch_id, chain)
\* leaves the record of the first and returns the same tx_hash.
C14_AnchorIdempotent ==
    [][/\ Len(anchor_records') >= Len(anchor_records)
       /\ \A i \in 1..Len(anchor_records) : anchor_records'[i] = anchor_records[i]
       /\ \A i \in 1..Len(anchor_records') :
             AnchorsOf(anchor_records', anchor_records'[i].batch_id,
                       anchor_records'[i].chain) = {i}
       /\ (sess'["tool"] # sess["tool"] /\ sess'["tool"].pc = "done"
             /\ "ret" \in DOMAIN sess'["tool"])
            => LET r == sess'["tool"].ret
                   S == AnchorsOf(anchor_records', r.batch_id, r.chain)
               IN  /\ Cardinality(S) = 1
                   /\ \A i \in S : /\ anchor_records'[i].tx_hash = r.tx_hash
                                   /\ anchor_records'[i].status = r.status
                                   /\ anchor_records'[i].anchored_at = r.anchored_at
                   /\ AnchorsOf(anchor_records, r.batch_id, r.chain) # {}
                        => anchor_records' = anchor_records]_vars

\* a later call of the tool has returned the record an earlier call stamped
C14_SecondCallSeen ==
    /\ sess["tool"].pc = "done"
    /\ "ret" \in DOMAIN sess["tool"]
    /\ sess["tool"].ret.anchored_at < clock - 1
    /\ Len(anchor_records) = 1

\* C15: merkle_tree_with_proofs returns, for every non-empty list of leaves,
\* one proof per leaf, and folding leaf i through proof i gives the root.
C15_EveryProofVerifies ==
    (calc.op = "merkle_tree_with_proofs" /\ calc.done) =>
        /\ Len(calc.out.proofs) = Len(calc.leaves)
        /\ \A i \in 1..Len(calc.leaves) :
              Fold(calc.leaves[i], calc.out.proofs[i]) = calc.out.root

\* the EventProofs of a batch
ProofsOf(proofs, batch_id) == {i \in 1..Len(proofs) : proofs[i].batch_id = batch_id}

\* id of the AuditEvent with this event_id
IdOf(db, eid) == CHOOSE i \in 1..Len(db) : db[i].event_id = eid

\* event a comes before event b in the order of `mode`
Before(db, a, b, mode) ==
    LET lt == \/ db[a].block_number < db[b].block_number
              \/ (db[a].block_number = db[b].block_number /\ a < b)
    IN  IF mode = "latest" THEN ~lt /\ a # b ELSE lt

\* C16: every MerkleBatch has leaf_count >= 1 and exactly leaf_count
\* EventProofs, with leaf_index 0 .. leaf_count-1, each once; and the proofs a
\* create_merkle_batch call commits carry their leaf_index in the order of
\* the call's mode: ascending (block_number, id) for oldest, descending for
\* latest.
C16_LeafIndexInSelectionOrder ==
    [][/\ \A m \in 1..Len(merkle_batches') :
             LET mb == merkle_batches'[m]
                 P == ProofsOf(event_proofs', mb.batch_id)
             IN  /\ mb.leaf_count >= 1
                 /\ Cardinality(P) = mb.leaf_count
                 /\ {event_proofs'[i].leaf_index : i \in P} = 0..(mb.leaf_count - 1)
       /\ \A b \in Batchers :
             (sess[b].pc = "commit" /\ Len(merkle_batches') > Len(merkle_batches)
                /\ sess'[b] # sess[b])
             => LET P == ProofsOf(event_proofs', sess[b].mb.batch_id)
                IN  \A i, j \in P :
                       event_proofs'[i].leaf_index < event_proofs'[j].leaf_index
                       => Before(audit_events,
                                 IdOf(audit_events, event_proofs'[i].event_id),
                                 IdOf(audit_events, event_proofs'[j].event_id),
                                 sess[b].mode)]_vars

\* a batch of two leaves was committed by a call with mode latest
C16_LatestBatchSeen ==
    \E m \in 1..Len(merkle_batches) :
        /\ merkle_batches[m].leaf_count >= 2
        /\ \E i, j \in ProofsOf(event_proofs, merkle_batches[m].batch_id) :
              /\ event_proofs[i].leaf_index < event_proofs[j].leaf_index
              /\ IdOf(audit_events, event_proofs[i].event_id)
                    > IdOf(audit_events, event_proofs[j].event_id)

\* the payload's total, custody agents left out, in the engine's unit
RECURSIVE PayloadTotal(_)
PayloadTotal(items) ==
    IF items = <<>> THEN 0
    ELSE (IF _detect_institution_type(Head(items).bank_id) = "custody_agent" THEN 0
          ELSE Head(items).exposure * 100) + PayloadTotal(Tail(items))

\* C17: for every institution of the payload whose whole exposure is a share
\* of the total above its limit, check_policy_compliance reports a CRITICAL
\* SINGLE_LIMIT violation with current_pct = exposure / total and
\* excess_amount = exposure - limit * total.
C17_SingleLimitOnWholeExposure ==
    (calc.op = "check_policy_compliance" /\ calc.done) =>
        LET total == PayloadTotal(calc.payload) IN
        \A k \in 1..Len(calc.payload) :
            LET x == calc.payload[k]
                whole == x.exposure * 100
                limit == IF _detect_institution_type(x.bank_id) = "policy_bank"
                         THEN EXPOSURE_LIMITS.policy_bank
                         ELSE EXPOSURE_LIMITS.single_institution
            IN  (_detect_institution_type(x.bank_id) # "custody_agent"
                    /\ whole * 1000 > limit * total)
                => \E i \in 1..Len(calc.out.violations) :
                      LET v == calc.out.violations[i] IN
                      /\ v.code = "SINGLE_LIMIT"
                      /\ v.level = "CRITICAL"
                      /\ v.bank_id = x.bank_id
                      /\ v.current_exposure = whole
                      /\ v.total_exposure = total
                      /\ v.excess_x1000 = whole * 1000 - limit * total

\* C18: for every configured bucket whose share is below min_pct,
\* check_maturity_distribution reports a MATURITY_UNDER violation with
\* direction UNDER: CRITICAL when share < min_pct * warning_threshold, else
\* WARNING.
C18_UnderAlwaysReported ==
    (calc.op = "check_maturity_distribution" /\ calc.done) =>
        LET total == _calc_total_exposure(calc.exposures) IN
        \A k \in 1..Len(BucketKeys) :
            LET b == BucketKeys[k]
                amount == SumWhere(calc.exposures, "maturity_bucket", b)
                min_pct == MATURITY_BUCKETS[b].min_pct
            IN  amount * 100 < min_pct * total
                => \E i \in 1..Len(calc.out) :
                      LET v == calc.out[i] IN
                      /\ v.bucket = b
                      /\ v.code = "MATURITY_UNDER"
                      /\ v.direction = "UNDER"
                      /\ v.level = IF amount * 1000 < 9 * min_pct * total
                                   THEN "CRITICAL" ELSE "WARNING"

\* the five dimension grades of a state, and the order A > B > C > D > F
DimensionGrades(st) ==
    {st.collateral_monthly, st.peg_monthly, st.disclosure_monthly,
     st.liquidity_monthly, st.por_monthly}

GradeOrder == <<"A", "B", "C", "D", "F">>

Position(g) == CHOOSE i \in 1..Len(GradeOrder) : GradeOrder[i] = g

LimitCase(st) == st.human_decision = "revise" /\ st.revision_count >= st.max_revisions

\* C19: outside the revision-limit case, the final_grade summarize_conclusion
\* returns is one of the five dimension grades and no dimension grade is
\* worse than it under A > B > C > D > F, for every combination of grades.
C19_FinalGradeIsWorst ==
    (calc.op = "summarize_conclusion" /\ calc.done /\ ~LimitCase(calc.st)) =>
        /\ calc.out.final_grade \in DimensionGrades(calc.st)
        /\ \A g \in DimensionGrades(calc.st) :
              Position(g) <= Position(calc.out.final_grade)

\* a summary of five different grades, after a revise below the limit
C19_MixedGradesSeen ==
    /\ calc.op = "summarize_conclusion" /\ calc.done
    /\ ~LimitCase(calc.st)
    /\ calc.st.human_decision = "revise"
    /\ DimensionGrades(calc.st) = GradeValues
    /\ calc.st.por_monthly = "A"
    /\ calc.out.final_grade = "F"

\* the status and decision fields of the tasks of a thread
TaskFields(tbl, thread_id) ==
    {<<i, tbl[i].status, tbl[i].last_decision>> :
        i \in {k \in 1..Len(tbl) : tbl[k].flow_run_id = thread_id}}

\* C20: a decision request for a thread_id whose checkpoint the checkpointer
\* does not hold is answered with 404 and leaves the status and the decision
\* of the thread's review tasks as they were, on every decision entry point.
C20_MissingCheckpointIs404 ==
    [][(/\ resumes' = resumes + 1
        /\ reply'.thread_id \in ThreadIds
        /\ ~threads[reply'.thread_id].exists)
        => /\ reply'.status = 404
           /\ TaskFields(tasks', reply'.thread_id) = TaskFields(tasks, reply'.thread_id)]_vars

\* the cycles of one kind in progress in a process
CyclesOf(p, kinds) ==
    Cardinality({i \in 1..Len(loops[p].running) : loops[p].running[i] \in kinds})

CollectionCycles == {"collect_once", "collect_usdt_transactions_once"}
BatcherCycles == {"make_batch", "process_merkle_batches_once"}

C22_SetIdempotentMonotone ==
    calc.op = "set_last_block" =>
        /\ set_last_block(last_block, calc.n) = last_block
        /\ (calc.before # None /\ calc.n < calc.before) => last_block >= calc.before

\* C23: after generate_report a document exists at state.report_path in
\* every case, also when the report template is missing.
C23_ArtifactAlwaysExists ==
    (calc.op = "generate_report" /\ calc.done) =>
        calc.out.st.report_path \in calc.out.files

\* C25: a request runs notify_approved_report for a thread, or leaves its
\* human_decision at approve, only if the decision the resume handed to the
\* human_review node is approve; a reject through any entry point does
\* neither.
C25_NotifyOnlyAfterApprove ==
    [][\A t \in ThreadIds :
          (/\ resumes' = resumes + 1
           /\ threads[t].exists /\ threads'[t].exists
           /\ \/ Notified(threads'[t]) > Notified(threads[t])
              \/ /\ threads'[t].st.human_decision = "approve"
                 /\ threads[t].st.human_decision # "approve")
              => threads'[t].st.human_review = "approve"]_vars

\* the rows of the chain up to block b that have no AuditEvent
Lost(b) ==
    {i \in 1..Len(upstream) :
        /\ upstream[i].blockNumber <= b
        /\ ~HasEvent(audit_events, upstream[i].hash)}

\* C24: between collection cycles every upstream event with block_number <=
\* last_block is present in audit_events.
C24_NoTransferLost ==
    (col.pc = "idle" /\ last_block # None) => Lost(last_block) = {}

\* the stored events with a valid leaf hash that have no EventProof
ValidUnproven ==
    {i \in 1..Len(audit_events) :
        /\ LeafOf(audit_events[i]) # <<>>
        /\ ~HasProof(event_proofs, audit_events[i].event_id)}

\* C26: while the pending events stay at or above the threshold, every stored
\* event with a valid leaf hash eventually has an EventProof, in both modes
\* and whatever events with an invalid hash are stored.
C26_ValidEventuallyProven ==
    calc.op = "run_merkle_batch_poller" ~>
        \/ ValidUnproven = {}
        \/ CountUnproven(audit_events, event_proofs, None) < calc.min_events

\* C30: a batcher cycle that finds fewer pending events than the threshold
\* creates or changes no MerkleBatch, EventProof or AnchorRecord, and its
\* result has batch = None and anchor = None.
C30_BelowThresholdWritesNothing ==
    [][(/\ calc.op = "run_merkle_batch_poller"
        /\ sess["worker"].pc = "idle"
        /\ CountUnproven(audit_events, event_proofs, None) < calc.min_events)
       => /\ merkle_batches' = merkle_batches
          /\ event_proofs' = event_proofs
          /\ anchor_records' = anchor_records
          /\ sess'["worker"].result.batch = None
          /\ sess'["worker"].result.anchor = None]_vars

\* a cycle after an earlier batch found valid events pending, fewer than the
\* threshold, and returned without a batch
C30_BelowThresholdSeen ==
    /\ calc.op = "run_merkle_batch_poller"
    /\ sess["worker"].pc = "done"
    /\ merkle_batches # <<>>
    /\ ValidUnproven # {}
    /\ sess["worker"].result.pending_events \in 1..(calc.min_events - 1)
    /\ sess["worker"].result.batch = None
    /\ sess["worker"].result.anchor = None

\* rows counted inserted so far, over the hashes hs
RECURSIVE SumInserted(_, _)
SumInserted(m, hs) ==
    IF hs = {} THEN 0
    ELSE LET h == CHOOSE x \in hs : TRUE
         IN  m[h].inserted + SumInserted(m, hs \ {h})

\* C27: a page in which a row fails still commits every other new row: the
\* inserted count store_events returns equals the number of rows the page
\* added to audit_events, and every row counted inserted is stored.
C27_FailedRowLosesNothing ==
    [][col.pc = "loop" =>
        /\ SumInserted(metrics', DOMAIN metrics) - SumInserted(metrics, DOMAIN metrics)
              = Len(audit_events') - Len(audit_events)
        /\ \A h \in DOMAIN metrics :
              metrics'[h].inserted > metrics[h].inserted => HasEvent(audit_events', h)]_vars

\* ------------------- bank_monitering/app_mcp/tools/reserve_role_engine.py
\* the institutions of one call, in payload order, and the amounts (exposure,
\* target_amount) they can have
BankIds == <<"b1", "b2", "b3">>
Roles == {"commercial_bank", "custody_agent"}
Amounts == 0..MaxAmount

\* the (bid, diff) pairs of the banks of cur_map whose diff = cur - tgt has
\* the sign `sign` (1: over, -1: under), in the order of cur_map; amt is the
\* absolute difference
RECURSIVE DiffList(_, _, _, _)
DiffList(institutions, tgt_map, sign, k) ==
    IF k > Len(institutions) THEN <<>>
    ELSE LET i == institutions[k]
             tgt == IF i.bank_id \in DOMAIN tgt_map THEN tgt_map[i.bank_id] ELSE 0
             diff == i.exposure - tgt
             rest == DiffList(institutions, tgt_map, sign, k + 1)
         IN  IF sign * diff > 0
             THEN <<[bank_id |-> i.bank_id, amt |-> sign * diff]>> \o rest
             ELSE rest

\* `for dst, amt_need in under` for one source: amt_over is the loop's own
\* variable and shrinks with every move; `amt_need -= move` changes the
\* loop variable only, the list `under` keeps its amounts
RECURSIVE UnderLoop(_, _, _, _, _)
UnderLoop(src, amt_over, under, k, plan) ==
    IF k > Len(under) THEN plan
    ELSE LET move == Min(amt_over, under[k].amt)
         IN  IF move <= 0 THEN UnderLoop(src, amt_over, under, k + 1, plan)
             ELSE UnderLoop(src, amt_over - move, under, k + 1,
                            Append(plan, [from |-> src, to |-> under[k].bank_id,
                                          amount |-> move]))

\* `for src, amt_over in over`
RECURSIVE OverLoop(_, _, _, _)
OverLoop(over, under, k, plan) ==
    IF k > Len(over) THEN plan
    ELSE OverLoop(over, under, k + 1,
                  UnderLoop(over[k].bank_id, over[k].amt, under, 1, plan))

\* compute_rebalance_plan(institutions, target_alloc)
compute_rebalance_plan(institutions, target_alloc) ==
    LET insts == SelectSeq(institutions, LAMBDA i : i.role # "custody_agent")
        targets_list == SelectSeq(target_alloc.banks,
                                  LAMBDA t : t.role # "custody_agent")
        custody_ids == {target_alloc.custody[k].bank_id :
                            k \in 1..Len(target_alloc.custody)}
        cur_list == SelectSeq(insts, LAMBDA i : i.bank_id \notin custody_ids)
        tgt_map == [b \in {targets_list[k].bank_id : k \in 1..Len(targets_list)} |->
                       (CHOOSE t \in {targets_list[k] : k \in 1..Len(targets_list)} :
                            t.bank_id = b).target_amount]
        over == DiffList(cur_list, tgt_map, 1, 1)
        under == DiffList(cur_list, tgt_map, -1, 1)
    IN  OverLoop(over, under, 1, <<>>)

\* compute_rebalance_plan(calc.institutions, calc.target_alloc)
RebalanceCall ==
    /\ calc.op = "compute_rebalance_plan"
    /\ Return(compute_rebalance_plan(calc.institutions, calc.target_alloc))

\* the result of compute_target_allocation for institutions whose targets
\* are tgt: banks holds the others with their target, custody the custody agents
TargetAlloc(institutions, tgt) ==
    [banks |-> [k \in 1..Len(SelectSeq(institutions, LAMBDA i : i.role # "custody_agent")) |->
                   LET i == SelectSeq(institutions, LAMBDA j : j.role # "custody_agent")[k]
                   IN  [bank_id |-> i.bank_id, role |-> i.role,
                        target_amount |-> tgt[i.bank_id]]],
     custody |-> SelectSeq(institutions, LAMBDA i : i.role = "custody_agent")]

\* the rebalance planner on every list of three institutions
InitRebalance ==
    /\ InitAuditVars
    /\ threads = [t \in ThreadIds |-> NoThread]
    /\ tasks = <<>>
    /\ runs = 0
    /\ resumes = 0
    /\ grun = NoRun
    /\ reply = NoReply
    /\ \E role \in [1..Len(BankIds) -> Roles], exposure \in [1..Len(BankIds) -> Amounts],
          tgt \in [{BankIds[k] : k \in 1..Len(BankIds)} -> Amounts] :
          LET institutions == [k \in 1..Len(BankIds) |->
                                 [bank_id |-> BankIds[k], role |-> role[k],
                                  exposure |-> exposure[k]]]
          IN  calc = [op |-> "compute_rebalance_plan", institutions |-> institutions,
                      target_alloc |-> TargetAlloc(institutions, tgt),
                      done |-> FALSE, out |-> <<>>]

NextRebalance == RebalanceCall

SpecRebalance == InitRebalance /\ [][NextRebalance]_vars

\* C28: every collection cycle terminates, in both source modes and for every
\* setting of the page limit and the time limit, both unset included.
C28_CycleTerminates == (col.pc = "loop") ~> (col.pc = "idle")

\* the amounts of the plan's moves whose field f names bank b
RECURSIVE Moved(_, _, _)
Moved(plan, f, b) ==
    IF plan = <<>> THEN 0
    ELSE (IF Head(plan)[f] = b THEN Head(plan).amount ELSE 0) + Moved(Tail(plan), f, b)

\* target amount of institution i in the call calc holds (0 without a target)
TargetOf(i) ==
    IF \E k \in 1..Len(calc.target_alloc.banks) :
            calc.target_alloc.banks[k].bank_id = i.bank_id
    THEN (CHOOSE t \in {calc.target_alloc.banks[k] :
                           k \in 1..Len(calc.target_alloc.banks)} :
              t.bank_id = i.bank_id).target_amount
    ELSE 0

\* C29: in the plan, the total moved out of a source is at most its surplus
\* (exposure - target amount) and the total moved into a destination is at
\* most its shortfall (target amount - exposure).
C29_PlanWithinSurplusAndShortfall ==
    (calc.op = "compute_rebalance_plan" /\ calc.done) =>
        \A k \in 1..Len(calc.institutions) :
            LET i == calc.institutions[k]
            IN  /\ Moved(calc.out, "from", i.bank_id) <= Max(i.exposure - TargetOf(i), 0)
                /\ Moved(calc.out, "to", i.bank_id) <= Max(TargetOf(i) - i.exposure, 0)

=============================================================================
